---- MODULE Spec2Model ----
(***************************************************************************)
(* Finesse Notifier: the monitoring orchestrator (hooks/useFinesse.ts),    *)
(* the persistent store (storageService) and the schedule evaluator        *)
(* (scheduleService), as a state machine.                                  *)
(*                                                                         *)
(* The orchestrator is a React hook.  Its callbacks are closures over the  *)
(* values of the render that created them; those captured values are kept  *)
(* explicitly (records of type Env), because a timer armed by one render   *)
(* keeps reading the values of that render.  Refs (useRef) are shared.     *)
(* Time is counted in minutes.                                             *)
(***************************************************************************)
EXTENDS Integers, Sequences, FiniteSets, TLC

\* ---------------------------------------------------------------- bounds
MaxTime == 2
MaxLoginTime == 16
MaxInFlight == 2
MaxTimeouts == 2
MaxOps == 3

\* ------------------------------------------------------ program constants
MaxLoginAttempts == 3
LockoutDuration == 15
DefaultStandardTimer == 5
DefaultPauseTimer == 30
MinTimer == 1
MaxTimer == 120
InitialRemainingAttempts == 10
SessionTimeout == 60
RealtimePeriod == 1

\* --------------------------------------------------------- optional values
None == <<>>
Some(x) == <<x>>
Get(o) == o[1]

\* -------------------------------------------------------------- data model
Usernames == {"ana@totvs.com.br", "bia@totvs.com.br"}
Credentials == [username : Usernames]

\* the agent documents the remote API answers with: ready, not ready without a
\* motive (-1), in a pause with motive 2, not ready with an unparsable code,
\* and a document without a firstName
Status(state, reasonCodeId, firstName) ==
  [state |-> state, reasonCodeId |-> reasonCodeId, firstName |-> firstName]
AgentDocuments ==
  { Status("READY", None, TRUE),
    Status("NOT_READY", Some("-1"), TRUE),
    Status("NOT_READY", Some("2"), TRUE),
    Status("NOT_READY", Some("x"), TRUE) }
NamelessDocument == Status("NOT_READY", Some("-1"), FALSE)

\* parseInt on the reason-code text; NaN is the result for non-numeric text
NaN == [nan |-> TRUE, val |-> 0]
Num(n) == [nan |-> FALSE, val |-> n]
ParseInt(t) ==
  CASE t = "-1" -> Num(0 - 1)
    [] t = "0" -> Num(0)
    [] t = "2" -> Num(2)
    [] OTHER -> NaN

\* `${currentState}_${currentReasonCode}`: the two texts, in order
StatusKey(d) == <<d.state, IF d.reasonCodeId = None THEN "null" ELSE Get(d.reasonCodeId)>>

ApiFailure == [success |-> FALSE, data |-> None]
ApiSuccess(d) == [success |-> TRUE, data |-> Some(d)]
LoginResponses ==
  {ApiFailure, ApiSuccess(NamelessDocument)} \cup {ApiSuccess(d) : d \in AgentDocuments}
PollResponses == {ApiFailure} \cup {ApiSuccess(d) : d \in AgentDocuments}

\* timer settings offered to updateTimerSettings (valid and invalid ones)
TimerInputs ==
  { [standardTimer |-> 1, pauseTimer |-> 2],
    [standardTimer |-> 2, pauseTimer |-> 2],
    [standardTimer |-> 0, pauseTimer |-> 2],
    [standardTimer |-> 5, pauseTimer |-> 121] }
DefaultTimerSettings == [standardTimer |-> DefaultStandardTimer, pauseTimer |-> DefaultPauseTimer]

DefaultNotificationConfig ==
  [windowsNotification |-> TRUE, googleChatNotification |-> FALSE, googleChatWebhook |-> None]

\* the text of a webhook is the sequence of its parts: scheme, user
\* information (optional, ending in @), host, path; the empty text has none
AllowedWebhookDomain == "chat.googleapis.com"
Schemes == {"https://", "http://"}
UserInfos == {"chat.googleapis.com@"}
WebhookPath == "/v1/spaces/A/messages"
EmptyText == << >>
WebhookText == << "https://", "chat.googleapis.com", WebhookPath >>
WebhookTexts ==
  { EmptyText,
    WebhookText,
    << "https://", "CHAT.GOOGLEAPIS.COM", WebhookPath >>,
    << "https://", "hooks.example.com", WebhookPath >>,
    << "https://", "chat.googleapis.com@", "hooks.example.com", WebhookPath >>,
    << "https://", "chat.googleapis.com.example.com", WebhookPath >>,
    << "chat.googleapis.com", WebhookPath >> }

\* new URL(text): it throws on a text without a scheme or without a host, and
\* its hostname is the host behind the user information, in lower case
LowerCaseHost(host) ==
  IF host = "CHAT.GOOGLEAPIS.COM" THEN "chat.googleapis.com" ELSE host
NoURL == [ok |-> FALSE, hostname |-> ""]
URL(text) ==
  IF Len(text) < 2 \/ text[1] \notin Schemes THEN NoURL
  ELSE LET authority == IF text[2] \in UserInfos THEN Tail(Tail(text)) ELSE Tail(text)
       IN IF authority = << >> THEN NoURL
          ELSE [ok |-> TRUE, hostname |-> LowerCaseHost(authority[1])]

\* the configurations offered to updateNotificationConfig
NotificationConfig(windows, chat, webhook) ==
  [windowsNotification |-> windows, googleChatNotification |-> chat,
   googleChatWebhook |-> webhook]
NotificationInputs ==
  {NotificationConfig(TRUE, TRUE, << text >>) : text \in WebhookTexts}
    \cup {NotificationConfig(TRUE, FALSE, << WebhookText >>)}

\* ---------------------------------------------------------------- schedule
HHmm(h, m) == [h |-> h, m |-> m]
InvalidDate == 0 - 1
\* date-fns parse(text, 'HH:mm', new Date()): minutes of the day, or Invalid Date
ParseTime(t) == IF t.h \in 0..23 /\ t.m \in 0..59 THEN t.h * 60 + t.m ELSE InvalidDate
IsValid(d) == d # InvalidDate

WorkDay(d, s, e, en) == [dayOfWeek |-> d, startTime |-> s, endTime |-> e, enabled |-> en]
defaultSchedule ==
  << WorkDay(1, HHmm(8, 0), HHmm(18, 0), TRUE),
     WorkDay(2, HHmm(8, 0), HHmm(18, 0), TRUE),
     WorkDay(3, HHmm(8, 0), HHmm(18, 0), TRUE),
     WorkDay(4, HHmm(8, 0), HHmm(18, 0), TRUE),
     WorkDay(5, HHmm(8, 0), HHmm(18, 0), TRUE),
     WorkDay(6, HHmm(8, 0), HHmm(12, 0), FALSE),
     WorkDay(0, HHmm(8, 0), HHmm(12, 0), FALSE) >>
getDefaultScheduleSettings == [workSchedules |-> defaultSchedule, notifyOutsideHours |-> FALSE]
NotifyAlwaysSettings == [workSchedules |-> defaultSchedule, notifyOutsideHours |-> TRUE]
ScheduleInputs == {getDefaultScheduleSettings, NotifyAlwaysSettings}

\* the wall clock when the page is first opened: Monday 09:00, or Monday 18:00,
\* the last minute of the default working window
StartPoints == { [day |-> 1, time |-> HHmm(9, 0)], [day |-> 1, time |-> HHmm(18, 0)] }

\* new Date() after t minutes, as day of week and HH:mm
WallAt(start0, t) ==
  LET minutes == start0.time.h * 60 + start0.time.m + t
  IN [day |-> (start0.day + (minutes \div 1440)) % 7,
      time |-> HHmm((minutes % 1440) \div 60, minutes % 60)]

\* Array.prototype.find: the first entry that satisfies the test
FindToday(ws, day) ==
  LET hits == {i \in 1..Len(ws) : ws[i].dayOfWeek = day /\ ws[i].enabled}
  IN IF hits = {} THEN None
     ELSE Some(ws[CHOOSE i \in hits : \A j \in hits : i <= j])

\* faulty variant of isWithinWorkingHours: the end of the interval is left out
isWithinWorkingHoursExclusive(settings, w) ==
  IF settings.notifyOutsideHours THEN TRUE
  ELSE LET today == FindToday(settings.workSchedules, w.day)
       IN IF today = None THEN FALSE
          ELSE LET startTime == ParseTime(Get(today).startTime)
                   endTime == ParseTime(Get(today).endTime)
                   currentDateTime == ParseTime(w.time)
               IN IF ~IsValid(startTime) \/ ~IsValid(endTime) \/ ~IsValid(currentDateTime)
                  THEN TRUE
                  ELSE startTime <= currentDateTime /\ currentDateTime < endTime
isWithinWorkingHours(settings, w) ==
  IF settings.notifyOutsideHours THEN TRUE
  ELSE LET today == FindToday(settings.workSchedules, w.day)
       IN IF today = None THEN FALSE
          ELSE LET startTime == ParseTime(Get(today).startTime)
                   endTime == ParseTime(Get(today).endTime)
                   currentDateTime == ParseTime(w.time)
               IN IF ~IsValid(startTime) \/ ~IsValid(endTime) \/ ~IsValid(currentDateTime)
                  THEN TRUE
                  ELSE startTime <= currentDateTime /\ currentDateTime <= endTime

shouldMonitor(isOpen, settings, w) ==
  IF ~isOpen THEN FALSE ELSE isWithinWorkingHours(settings, w)

\* the same two with the optional parameter: !scheduleSettings is true of an
\* absent argument
isWithinWorkingHoursOf(scheduleSettings, w) ==
  IF scheduleSettings = None THEN TRUE
  ELSE isWithinWorkingHours(Get(scheduleSettings), w)
shouldMonitorOf(isOpen, scheduleSettings, w) ==
  IF ~isOpen THEN FALSE ELSE isWithinWorkingHoursOf(scheduleSettings, w)

\* ------------------------------------------------------------------- state
VARIABLES
  credentials, agentStatus, isConnected, error, isFinesseOpen,
  isAccountLocked, remainingAttempts, timerSettings, notificationConfig,
  scheduleSettings,
  memo,
  intervalRef, pauseTimeoutRef, realtimeIntervalRef, lastStatusRef,
  timeouts, inflight,
  storage,
  now, start,
  out, runNotifs, failStreak, loggedOut, used

\* the remote client (FinesseService): its two configured URLs, the operation
\* in progress, the request that operation is waiting for, the requests it has
\* issued, the answers of the endpoints it has tried, and what it returned
VARIABLES baseUrl, fallbackUrl, call, pending, requests, tried, result

clientVars == << baseUrl, fallbackUrl, call, pending, requests, tried, result >>
ClientUnchanged == UNCHANGED clientVars

\* the rate limiter (RateLimitService): its map from key to the timestamps it
\* has recorded, what Date.now() shows, the times of the calls it has accepted
\* for each (userId, endpoint), the calls made so far, and its last answer
VARIABLES limiter, rateNow, accepted, rateCalls, rateOut

rateVars == << limiter, rateNow, accepted, rateCalls, rateOut >>
RateUnchanged == UNCHANGED rateVars

\* the schedule evaluator (ScheduleService) has no state: the question put to
\* it (settings or none, what new Date() shows, whether the client is open)
\* and its answer, absent until it is given
VARIABLES schSettings, schWall, schOpen, schAnswer

scheduleVars == << schSettings, schWall, schOpen, schAnswer >>

\* the cipher (EncryptionService) has no state either: the texts and the
\* object given to it, and what it has made of them so far
VARIABLES cryIn, cryOut

cryptoVars == << cryIn, cryOut >>

\* the credential store (StorageService) used on its own: the calls made so
\* far and what the last getCredentials found and returned
VARIABLES stCalls, stOut

storeVars == << stCalls, stOut >>

\* the three timer handles of the hook (intervalRef, realtimeIntervalRef,
\* pauseTimeoutRef) seen from the browser's side: the timers that are pending,
\* the handle each ref holds, the handlers suspended at an await before their
\* startRealtimeCheck, the delayed restarts not yet run, and the last step
VARIABLES pendingTimers, handles, awaiting, restarts, timerStep

timerVars == << pendingTimers, handles, awaiting, restarts, timerStep >>

\* getNextWorkingTime(scheduleSettings) used on its own: the settings given,
\* what new Date() showed, and the answer
VARIABLES nextSettings, nextNow, nextAnswer

nextTimeVars == << nextSettings, nextNow, nextAnswer >>

\* the client detector (FinesseDetectorService) used on its own: whether the
\* page runs as an extension (chrome.tabs exists), the tabs that are open, and
\* what the last call did
VARIABLES detExtension, detTabs, detOut

detectorVars == << detExtension, detTabs, detOut >>

\* the services the orchestrator's own steps leave alone, and what the steps
\* of each service leave alone
ServicesUnchanged ==
  UNCHANGED << clientVars, rateVars, scheduleVars, cryptoVars, storeVars,
               timerVars, nextTimeVars, detectorVars >>

sessionVars == << credentials, agentStatus, isConnected, error, isFinesseOpen,
           isAccountLocked, remainingAttempts, timerSettings, notificationConfig,
           scheduleSettings, memo, intervalRef, pauseTimeoutRef,
           realtimeIntervalRef, lastStatusRef, timeouts, inflight, storage,
           now, start, out, runNotifs, failStreak, loggedOut, used >>
vars == << sessionVars, clientVars, rateVars, scheduleVars, cryptoVars,
        storeVars, timerVars, nextTimeVars, detectorVars >>
ClientOnly ==
  UNCHANGED << sessionVars, rateVars, scheduleVars, cryptoVars,
               storeVars, timerVars, nextTimeVars, detectorVars >>
RateOnly ==
  UNCHANGED << sessionVars, clientVars, scheduleVars, cryptoVars,
               storeVars, timerVars, nextTimeVars, detectorVars >>
ScheduleOnly ==
  UNCHANGED << sessionVars, clientVars, rateVars, cryptoVars,
               storeVars, timerVars, nextTimeVars, detectorVars >>
CryptoOnly ==
  UNCHANGED << sessionVars, clientVars, rateVars, scheduleVars,
               storeVars, timerVars, nextTimeVars, detectorVars >>
StoreOnly ==
  UNCHANGED << credentials, agentStatus, isConnected, error, isFinesseOpen,
               isAccountLocked, remainingAttempts, timerSettings,
               notificationConfig, scheduleSettings, memo, intervalRef,
               pauseTimeoutRef, realtimeIntervalRef, lastStatusRef, timeouts,
               inflight, start, out, runNotifs, failStreak, loggedOut, used,
               clientVars, rateVars, scheduleVars, cryptoVars,
               timerVars,
               nextTimeVars,
               detectorVars >>
DetectorOnly ==
  UNCHANGED << sessionVars, clientVars, rateVars,
               scheduleVars, cryptoVars, storeVars, timerVars, nextTimeVars >>
NextTimeOnly ==
  UNCHANGED << sessionVars, clientVars, rateVars,
               scheduleVars, cryptoVars, storeVars, timerVars, detectorVars >>
TimerOnly ==
  UNCHANGED << sessionVars, clientVars, rateVars, scheduleVars,
               cryptoVars, storeVars, nextTimeVars, detectorVars >>

\* what new Date() shows now
wall == WallAt(start, now)

\* the values a callback created by a render reads from that render
Env(c, o, s, t, n) ==
  [credentials |-> c, isFinesseOpen |-> o, scheduleSettings |-> s,
   timerSettings |-> t, notificationConfig |-> n]

defaultAttempts == [count |-> 0, lastAttempt |-> 0]

\* history: the failed logins of a username since its last successful one
\* (counted up to one more than the limit) and the time of the last of them
NoStreak == [count |-> 0, last |-> 0]
StreakAfterFailure(s, t) ==
  [count |-> IF s.count > MaxLoginAttempts THEN s.count ELSE s.count + 1, last |-> t]

EmptyStorage ==
  [secureCredentials |-> None,
   loginAttempts |-> [u \in Usernames |-> defaultAttempts],
   timerSettings |-> None,
   scheduleSettings |-> None,
   notificationConfig |-> None,
   agentStatus |-> None]

\* what the last step did towards the outside world: the operation, the phase
\* its status check reached, the connectApi calls it started, the calls of
\* sendNotification and focusFinesseTab it made, whether it entered
\* handleStatusNotifications and whether it armed the pause-deadline timer;
\* for a login also the credentials entered and the answer of connectApi, for
\* a rejected update of the timer settings the settings offered, and for an
\* answer that entered handleStatusNotifications whether it found the time
\* within working hours and whether the check was the one of initializeApp
Out(op, phase, api, notifs, focus, entered, armed) ==
  [op |-> op, phase |-> phase, api |-> api, notifs |-> notifs, focus |-> focus,
   entered |-> entered, armed |-> armed, login |-> None, resp |-> None,
   arg |-> None, within |-> FALSE, init |-> FALSE]
LoginOut(o, c, resp) == [o EXCEPT !.login = Some(c), !.resp = resp]
RejectedOut(settings) == [Out("rejected", "none", 0, <<>>, 0, FALSE, FALSE)
                            EXCEPT !.arg = Some(settings)]
WithinOut(o, within, init) == [o EXCEPT !.within = within, !.init = init]
Quiet(op) == Out(op, "none", 0, <<>>, 0, FALSE, FALSE)

InitSession ==
  /\ credentials = None
  /\ agentStatus = None
  /\ isConnected = FALSE
  /\ error = "none"
  /\ isFinesseOpen = TRUE
  /\ isAccountLocked = FALSE
  /\ remainingAttempts = InitialRemainingAttempts
  /\ timerSettings = DefaultTimerSettings
  /\ notificationConfig = DefaultNotificationConfig
  /\ scheduleSettings = getDefaultScheduleSettings
  /\ memo = Env(None, TRUE, getDefaultScheduleSettings, DefaultTimerSettings,
                DefaultNotificationConfig)
  /\ intervalRef = None
  /\ pauseTimeoutRef = None
  /\ realtimeIntervalRef = None
  /\ lastStatusRef = None
  /\ timeouts = <<>>
  /\ inflight = <<>>
  /\ storage = EmptyStorage
  /\ now = 0
  /\ start \in StartPoints
  /\ out = Quiet("init")
  /\ runNotifs = 0
  /\ failStreak = [u \in Usernames |-> NoStreak]
  /\ loggedOut = FALSE
  /\ used = 0

\* the two URLs the constructor reads from the environment
PrimaryUrl == "https://primary/finesse/api"
SecondaryUrl == "https://secondary/finesse/api"

\* new FinesseService(): both URLs configured, no operation in progress
InitService(fallback) ==
  /\ baseUrl = PrimaryUrl
  /\ fallbackUrl = fallback
  /\ call = None
  /\ pending = None
  /\ requests = <<>>
  /\ tried = <<>>
  /\ result = None

\* new RateLimitService(): nothing recorded
InitRateLimit ==
  /\ limiter = [k \in {} |-> <<>>]
  /\ rateNow = 0
  /\ accepted = [p \in {} |-> <<>>]
  /\ rateCalls = 0
  /\ rateOut = [op |-> "init"]

\* no question has been put to the schedule evaluator
InitScheduleIdle ==
  /\ schSettings = None
  /\ schWall = [day |-> 1, time |-> HHmm(9, 0)]
  /\ schOpen = TRUE
  /\ schAnswer = None

\* nothing has been given to the cipher
NothingDone ==
  [encrypted |-> None, decrypted |-> None, objEncrypted |-> None,
   objDecrypted |-> None, hash |-> None, valid |-> None]
CryptoQuestion(data, other, obj, salt) ==
  [data |-> data, other |-> other, obj |-> obj, salt |-> salt]
InitCryptoIdle ==
  /\ cryIn = CryptoQuestion("", "", [username |-> "ana@totvs.com.br"], 1)
  /\ cryOut = NothingDone

\* getCredentials has not been called
NotAsked == [n |-> 0, before |-> None, at |-> 0, returned |-> None]
InitStoreIdle ==
  /\ stCalls = 0
  /\ stOut = NotAsked

\* no timer was created yet
NoHandles == [interval |-> 0, realtime |-> 0, pause |-> 0]
NoTimers == [interval |-> {}, realtime |-> {}, pause |-> {}]
InitTimersIdle ==
  /\ pendingTimers = NoTimers
  /\ handles = NoHandles
  /\ awaiting = 0
  /\ restarts = 0
  /\ timerStep = [op |-> "mount", cancelled |-> 0]

\* getNextWorkingTime has not been asked
InitNextTimeIdle ==
  /\ nextSettings = getDefaultScheduleSettings
  /\ nextNow = [day |-> 1, time |-> HHmm(9, 0)]
  /\ nextAnswer = None

\* the detector has not been called
NotDetected ==
  [op |-> "none", result |-> FALSE, lastError |-> FALSE, opened |-> None,
   focused |-> None]
InitDetectorIdle ==
  /\ detExtension = FALSE
  /\ detTabs = <<>>
  /\ detOut = NotDetected

\* the services at rest
InitServices ==
  /\ InitService(SecondaryUrl) /\ InitRateLimit /\ InitScheduleIdle
  /\ InitCryptoIdle /\ InitStoreIdle
  /\ InitDetectorIdle
  /\ InitNextTimeIdle
  /\ InitTimersIdle

Init == InitSession /\ InitServices

\* ------------------------------------------------------------ persistence
\* storageService.getLoginAttempts: the stored record, or the default one
getLoginAttempts(st, username) == st.loginAttempts[username]

\* storageService.recordLoginAttempt
recordLoginAttempt(st, success, username, t) ==
  IF success
  THEN [st EXCEPT !.loginAttempts[username] = defaultAttempts]
  ELSE [st EXCEPT !.loginAttempts[username] =
          [count |-> getLoginAttempts(st, username).count + 1, lastAttempt |-> t]]

\* storageService.isAccountLocked: the value it returns ...
\* (preceded by a faulty variant that keeps the account locked one minute longer)
StoreIsAccountLockedInclusive(st, username, t) ==
  LET attempts == getLoginAttempts(st, username)
  IN IF attempts.count < MaxLoginAttempts THEN FALSE
     ELSE (t - attempts.lastAttempt) <= LockoutDuration
StoreIsAccountLocked(st, username, t) ==
  LET attempts == getLoginAttempts(st, username)
  IN IF attempts.count < MaxLoginAttempts THEN FALSE
     ELSE (t - attempts.lastAttempt) < LockoutDuration

\* ... and the store it leaves behind (an expired lockout is cleared)
\* (preceded by a faulty variant that clears the record during the lockout too)
StoreAfterLockCheckAlways(st, username, t) ==
  LET attempts == getLoginAttempts(st, username)
  IN IF attempts.count >= MaxLoginAttempts
     THEN recordLoginAttempt(st, TRUE, username, t)
     ELSE st
StoreAfterLockCheck(st, username, t) ==
  LET attempts == getLoginAttempts(st, username)
  IN IF attempts.count >= MaxLoginAttempts /\ ~StoreIsAccountLocked(st, username, t)
     THEN recordLoginAttempt(st, TRUE, username, t)
     ELSE st

\* ----------------------------------------------------------- encryption
\* NEXT_PUBLIC_ENCRYPTION_KEY (the constructor refuses an empty one), a key
\* that is not the configured one, and the salts CryptoJS can draw
SecretKey == "secret"
OtherKey == "other secret"
Salts == {1, 2}

\* CryptoJS.AES.encrypt(data, key).toString(): a text from which the key, and
\* only the key, gives the data back
Ciphertext(data, key, salt) == [salt |-> salt, key |-> key, plain |-> data]
\* a text that is the encryption of nothing under any key
Garbage == Ciphertext("", "", 0)
encrypt(data, salt) == Ciphertext(data, SecretKey, salt)

\* what an operation that can throw gives: its value, or the fact that it threw
Gives(v) == [ok |-> TRUE, value |-> v]
Throws == [ok |-> FALSE, value |-> ""]

\* faulty variant of decrypt: the empty text is given back like any other
decryptAny(encryptedData) ==
  IF encryptedData.key # SecretKey THEN Throws ELSE Gives(encryptedData.plain)
\* decrypt: the bytes read as UTF-8; text that is empty (and the bytes another
\* key leaves, which are no UTF-8 or none) makes it throw
decrypt(encryptedData) ==
  IF encryptedData.key # SecretKey \/ encryptedData.plain = ""
  THEN Throws
  ELSE Gives(encryptedData.plain)

\* CryptoJS.SHA256(data + key).toString(), taken as one-to-one
SHA256(text) == "sha256(" \o text \o ")"
generateHash(data) == SHA256(data \o SecretKey)
validateHash(data, hash) == generateHash(data) = hash

\* JSON.stringify and JSON.parse over the objects that are stored encrypted:
\* the credentials (None when JSON.parse throws)
JsonObjects == Credentials
stringify(obj) == "{\"username\":\"" \o obj.username \o "\"}"
parse(text) ==
  IF \E obj \in JsonObjects : stringify(obj) = text
  THEN Some(CHOOSE obj \in JsonObjects : stringify(obj) = text)
  ELSE None

encryptObject(obj, salt) == encrypt(stringify(obj), salt)
\* None when decrypt or JSON.parse throws
decryptObject(encryptedData) ==
  IF ~decrypt(encryptedData).ok THEN None ELSE parse(decrypt(encryptedData).value)

\* the salt drawn does not matter to what is read back; saveCredentials is
\* given the first one
SecureCredentials(c, t, salt) ==
  [encryptedData |-> encryptObject(c, salt),
   hash |-> generateHash(stringify(c)),
   timestamp |-> t]
saveCredentials(st, c, t) ==
  [st EXCEPT !.secureCredentials = Some(SecureCredentials(c, t, 1))]

removeCredentials(st) == [st EXCEPT !.secureCredentials = None]

saveAgentStatus(st, d, t) ==
  [st EXCEPT !.agentStatus = Some([status |-> d, timestamp |-> t])]

\* storageService.saveTimerSettings: the validation in front of the write
\* (preceded by a faulty variant that lets pauseTimer equal standardTimer)
TimerSettingsAcceptedEqual(s) ==
  /\ ~(s.standardTimer < MinTimer \/ s.standardTimer > MaxTimer)
  /\ ~(s.pauseTimer < MinTimer \/ s.pauseTimer > MaxTimer)
  /\ ~(s.pauseTimer < s.standardTimer)
TimerSettingsAccepted(s) ==
  /\ ~(s.standardTimer < MinTimer \/ s.standardTimer > MaxTimer)
  /\ ~(s.pauseTimer < MinTimer \/ s.pauseTimer > MaxTimer)
  /\ ~(s.pauseTimer <= s.standardTimer)

\* storageService.saveTimerSettings: the store it leaves behind
\* (preceded by a faulty variant that writes before it validates)
saveTimerSettingsUnchecked(st, s) == [st EXCEPT !.timerSettings = Some(s)]
saveTimerSettings(st, s) ==
  IF TimerSettingsAccepted(s) THEN [st EXCEPT !.timerSettings = Some(s)] ELSE st

\* storageService.saveNotificationConfig: a webhook that is given (a text that
\* is not empty) must be a URL of the allowed host
\* (preceded by a faulty variant that does not compare the hostname)
WebhookGiven(config) ==
  config.googleChatWebhook # None /\ Get(config.googleChatWebhook) # EmptyText
WebhookAcceptedAnyHost(config) ==
  WebhookGiven(config) => URL(Get(config.googleChatWebhook)).ok
WebhookAccepted(config) ==
  WebhookGiven(config) =>
    /\ URL(Get(config.googleChatWebhook)).ok
    /\ URL(Get(config.googleChatWebhook)).hostname = AllowedWebhookDomain
saveNotificationConfig(st, config) ==
  IF WebhookAccepted(config) THEN [st EXCEPT !.notificationConfig = Some(config)] ELSE st
getNotificationConfig(st) ==
  IF st.notificationConfig = None THEN DefaultNotificationConfig
  ELSE Get(st.notificationConfig)

\* storageService.getCredentials: the value it returns (absent when nothing is
\* stored or the session is older than the timeout) ...
\* faulty variant of getCredentials: the integrity hash is not compared
getCredentialsUnchecked(st, t) ==
  IF st.secureCredentials = None THEN None
  ELSE IF (t - Get(st.secureCredentials).timestamp) > SessionTimeout THEN None
  ELSE decryptObject(Get(st.secureCredentials).encryptedData)
getCredentials(st, t) ==
  IF st.secureCredentials = None THEN None
  ELSE IF (t - Get(st.secureCredentials).timestamp) > SessionTimeout THEN None
  ELSE LET decrypted == decryptObject(Get(st.secureCredentials).encryptedData)
       IN IF decrypted = None THEN None
          ELSE IF ~validateHash(stringify(Get(decrypted)),
                                Get(st.secureCredentials).hash)
          THEN None
          ELSE decrypted

\* ... and the store it leaves behind
StoreAfterGetCredentials(st, t) ==
  IF st.secureCredentials # None /\ getCredentials(st, t) = None
  THEN removeCredentials(st)
  ELSE st

\* ----------------------------------------------------------- orchestrator
\* the closure of the first render: nothing loaded, nobody logged in
MountEnv ==
  Env(None, TRUE, getDefaultScheduleSettings, DefaultTimerSettings, DefaultNotificationConfig)

Poll(e, c, init) == [env |-> e, creds |-> c, init |-> init]
Interval(e, period) == [env |-> e, period |-> period]
PauseTimeout(e, deadline) == [env |-> e, deadline |-> deadline, fired |-> FALSE]
Timeout(kind, e, period) == [kind |-> kind, env |-> e, period |-> period]

Min2(n) == IF n > 2 THEN 2 ELSE n
Max0(n) == IF n < 0 THEN 0 ELSE n

\* checkAgentStatus up to its first await: without credentials it returns, when
\* shouldMonitor is false it pauses, otherwise it calls connectApi
CheckPhase(e, creds) ==
  LET currentCredentials == IF creds # None THEN creds ELSE e.credentials
  IN IF currentCredentials = None THEN "noop"
     ELSE IF ~shouldMonitor(e.isFinesseOpen, e.scheduleSettings, wall) THEN "paused"
     ELSE "poll"

ConnAfter(phase, cur) == IF phase = "paused" THEN FALSE ELSE cur
ErrAfter(phase, cur) == IF phase = "paused" THEN "paused" ELSE cur
\* the status checks in flight after checkAgentStatus reached the given phase
\* (preceded by a faulty variant that calls connectApi when paused as well)
FlightAfterPaused(phase, e, creds, init) ==
  IF phase # "noop"
  THEN Append(inflight, Poll(e, IF creds # None THEN creds ELSE e.credentials, init))
  ELSE inflight
FlightAfter(phase, e, creds, init) ==
  IF phase = "poll"
  THEN Append(inflight, Poll(e, IF creds # None THEN creds ELSE e.credentials, init))
  ELSE inflight
ApiOf(phase) == IF phase = "poll" THEN 1 ELSE 0
\* the bookkeeping that keeps the explored runs finite: the sessions started,
\* the changes made by the user or the detector and the status checks sent
\* (those of a delayed restart belong to the change that scheduled it)
OneMore(u) == IF u < MaxOps THEN u + 1 ELSE u
SessionUsed == OneMore(used)
ChangeUsed == OneMore(used)
PollUsed(u, op, phase) == IF phase = "poll" /\ op # "restart" THEN OneMore(u) ELSE u
Room(op, phase) ==
  phase = "poll" => Len(inflight) < MaxInFlight /\ (op = "restart" \/ used < MaxOps)

\* checkAgentStatus: is the status key of the response a new one?
\* (preceded by a faulty variant that takes every key for a new one)
StatusChangedAlways(last, key) == TRUE
StatusChanged(last, key) == last # Some(key)

\* handleStatusNotifications goes on past its working-hours test
\* (preceded by a faulty variant that leaves the test out)
ActsAlways(entered, within) == entered
Acts(entered, within) == entered /\ within

\* the branch handleStatusNotifications takes once it is within working hours
handleBranch(d) ==
  LET reasonCodeId == IF d.reasonCodeId = None THEN NaN ELSE ParseInt(Get(d.reasonCodeId))
      present == d.reasonCodeId # None /\ ~reasonCodeId.nan
  IN IF present /\ reasonCodeId.val = 0 - 1 THEN "notReady"
     ELSE IF present /\ reasonCodeId.val # 0 /\ reasonCodeId.val > 0 THEN "pause"
     ELSE IF d.state = "NOT_READY" THEN "notReadyGeneric"
     ELSE "none"

\* the delay of the pause-deadline timer, in minutes
PauseDelay(t) == t.pauseTimer

\* login: does the response count as a successful login?
\* (preceded by a faulty variant that does not ask for the firstName)
LoginSucceededWithoutName(resp) == resp.success /\ resp.data # None
LoginSucceeded(resp) == resp.success /\ resp.data # None /\ Get(resp.data).firstName

\* login: the remaining attempts shown after a failure
\* (preceded by a faulty variant that is one too low)
RemainingAfterFailureOffByOne(count) == Max0(MaxLoginAttempts - count - 1)
RemainingAfterFailure(count) == Max0(MaxLoginAttempts - count)

\* sendNotification as called by a closure: type, parameter and the channels used
\* and the host the webhook POST goes to, if one is made
sendNotification(e, type, param) ==
  LET chat == e.notificationConfig.googleChatNotification
                /\ WebhookGiven(e.notificationConfig)
  IN [type |-> type, param |-> param,
      windows |-> e.notificationConfig.windowsNotification,
      chat |-> chat,
      post |-> IF chat /\ URL(Get(e.notificationConfig.googleChatWebhook)).ok
               THEN Some(URL(Get(e.notificationConfig.googleChatWebhook)).hostname)
               ELSE None]

\* notifications since the last-observed key last changed (saturating at 2)
RunAfter(newLast, n) == IF newLast # lastStatusRef THEN Min2(n) ELSE Min2(runNotifs + n)

\* what every step that leaves the refs and queues alone repeats
TimersUnchanged ==
  UNCHANGED << intervalRef, pauseTimeoutRef, realtimeIntervalRef, timeouts >>
SettingsUnchanged ==
  UNCHANGED << timerSettings, notificationConfig, scheduleSettings, isFinesseOpen >>
ClockUnchanged == UNCHANGED << now, start >>

\* the body of login(loginCredentials), with the answer of connectApi as input
LoginBody(c, resp) ==
  LET username == c.username
      locked == StoreIsAccountLocked(storage, username, now)
      st0 == StoreAfterLockCheck(storage, username, now)
      phase == CheckPhase(memo, None)
  IN IF locked THEN
       /\ isAccountLocked' = TRUE
       /\ error' = "locked"
       /\ storage' = st0
       /\ out' = LoginOut(Quiet("loginLocked"), c, None)
       /\ UNCHANGED << credentials, agentStatus, isConnected, remainingAttempts,
                       memo, lastStatusRef, inflight, runNotifs,
                       failStreak, loggedOut, used >>
       /\ TimersUnchanged /\ SettingsUnchanged /\ ClockUnchanged /\ ServicesUnchanged
     ELSE IF LoginSucceeded(resp) THEN
       /\ Room("loginOk", phase)
       /\ storage' = recordLoginAttempt(saveCredentials(st0, c, now), TRUE, username, now)
       /\ credentials' = Some(c)
       /\ agentStatus' = resp.data
       /\ isAccountLocked' = FALSE
       /\ remainingAttempts' = InitialRemainingAttempts
       /\ lastStatusRef' = Some(StatusKey(Get(resp.data)))
       \* startStatusCheck of the render that called login
       /\ isConnected' = ConnAfter(phase, TRUE)
       /\ error' = ErrAfter(phase, "none")
       /\ inflight' = FlightAfter(phase, memo, None, FALSE)
       /\ intervalRef' = Some(Interval(memo, timerSettings.standardTimer))
       /\ pauseTimeoutRef' = None
       /\ realtimeIntervalRef' = Some(Interval(memo, RealtimePeriod))
       /\ memo' = Env(Some(c), isFinesseOpen, scheduleSettings, timerSettings,
                      notificationConfig)
       /\ out' = LoginOut(Out("loginOk", phase, 1 + ApiOf(phase), <<>>, 0, FALSE, FALSE),
                          c, Some(resp))
       /\ runNotifs' = RunAfter(lastStatusRef', 0)
       /\ failStreak' = [failStreak EXCEPT ![username] = NoStreak]
       /\ loggedOut' = FALSE
       /\ used' = PollUsed(SessionUsed, "loginOk", phase)
       /\ UNCHANGED timeouts
       /\ SettingsUnchanged /\ ClockUnchanged /\ ServicesUnchanged
     ELSE
       LET st1 == recordLoginAttempt(st0, FALSE, username, now)
           remaining == RemainingAfterFailure(getLoginAttempts(st1, username).count)
       IN /\ storage' = st1
          /\ remainingAttempts' = remaining
          /\ error' = "login"
          /\ isAccountLocked' = IF remaining = 0 THEN TRUE ELSE isAccountLocked
          /\ out' = LoginOut(Out("loginFail", "none", 1, <<>>, 0, FALSE, FALSE),
                             c, Some(resp))
          /\ failStreak' = [failStreak EXCEPT ![username] = StreakAfterFailure(@, now)]
          /\ UNCHANGED << credentials, agentStatus, isConnected, memo,
                          lastStatusRef, inflight, runNotifs, loggedOut, used >>
          /\ TimersUnchanged /\ SettingsUnchanged /\ ClockUnchanged /\ ServicesUnchanged

\* login as the page offers it: the login form is shown only while nobody is
\* logged in
Login(c, resp) ==
  /\ credentials = None
  /\ LoginBody(c, resp)

\* logout(), offered by the page while somebody is logged in
Logout ==
  /\ credentials # None
  /\ intervalRef' = None
  /\ pauseTimeoutRef' = None
  /\ realtimeIntervalRef' = None
  /\ storage' = removeCredentials(storage)
  /\ credentials' = None
  /\ agentStatus' = None
  /\ isConnected' = FALSE
  /\ error' = "none"
  /\ isAccountLocked' = FALSE
  /\ remainingAttempts' = InitialRemainingAttempts
  /\ lastStatusRef' = None
  /\ memo' = Env(None, isFinesseOpen, scheduleSettings, timerSettings, notificationConfig)
  /\ out' = Quiet("logout")
  /\ runNotifs' = RunAfter(None, 0)
  /\ loggedOut' = TRUE
  /\ UNCHANGED << timeouts, inflight, failStreak, used >>
  /\ SettingsUnchanged /\ ClockUnchanged /\ ServicesUnchanged

\* the clock: d minutes pass
Advance(d, limit) ==
  /\ now + d <= limit
  /\ timeouts = << >>
  /\ now' = now + d
  /\ UNCHANGED start /\ ServicesUnchanged
  /\ out' = Quiet("advance")
  /\ UNCHANGED << credentials, agentStatus, isConnected, error, isAccountLocked,
                  remainingAttempts, memo, lastStatusRef, inflight, storage,
                  runNotifs, failStreak, loggedOut, used >>
  /\ TimersUnchanged /\ SettingsUnchanged

\* a status check started by the closure e with the credentials argument creds:
\* the part of checkAgentStatus in front of the call of connectApi
BeginCheck(op, e, creds) ==
  LET phase == CheckPhase(e, creds)
  IN /\ Room(op, phase)
     /\ isConnected' = ConnAfter(phase, isConnected)
     /\ error' = ErrAfter(phase, error)
     /\ inflight' = FlightAfter(phase, e, creds, FALSE)
     /\ out' = IF phase = "noop" THEN out
               ELSE Out(op, phase, ApiOf(phase), <<>>, 0, FALSE, FALSE)
     /\ used' = PollUsed(used, op, phase)

\* a tick of the primary interval (setInterval of startStatusCheck)
IntervalTick ==
  /\ intervalRef # None
  /\ BeginCheck("check", Get(intervalRef).env, None)
  /\ UNCHANGED << credentials, agentStatus, isAccountLocked, remainingAttempts,
                  memo, lastStatusRef, storage, runNotifs, failStreak, loggedOut >>
  /\ TimersUnchanged /\ SettingsUnchanged /\ ClockUnchanged /\ ServicesUnchanged

\* a tick of the 60 s interval (setInterval of startRealtimeCheck)
RealtimeTick ==
  /\ realtimeIntervalRef # None
  /\ BeginCheck("check", Get(realtimeIntervalRef).env, None)
  /\ UNCHANGED << credentials, agentStatus, isAccountLocked, remainingAttempts,
                  memo, lastStatusRef, storage, runNotifs, failStreak, loggedOut >>
  /\ TimersUnchanged /\ SettingsUnchanged /\ ClockUnchanged /\ ServicesUnchanged

\* refreshStatus()
RefreshStatus ==
  /\ credentials # None
  /\ BeginCheck("check", memo, credentials)
  /\ UNCHANGED << credentials, agentStatus, isAccountLocked, remainingAttempts,
                  memo, lastStatusRef, storage, runNotifs, failStreak, loggedOut >>
  /\ TimersUnchanged /\ SettingsUnchanged /\ ClockUnchanged /\ ServicesUnchanged

\* changeAgentState(state, reasonCodeId), with the outcome of the remote call as
\* input: without credentials it returns false at once (line 323); on success a
\* re-poll is scheduled one second later (333-335); a failed or thrown call
\* sets the error (339, 343)
\* (ChangePhase is preceded by a faulty variant without the test of line 323)
ChangePhaseUnguarded(creds, success) == IF success THEN "changed" ELSE "failed"
ChangePhase(creds, success) ==
  IF creds = None THEN "noop" ELSE IF success THEN "changed" ELSE "failed"
ChangeOut(phase) ==
  [Out("change", phase, IF phase = "noop" THEN 0 ELSE 1, <<>>, 0, FALSE, FALSE)
     EXCEPT !.arg = Some(phase = "changed")]
ChangeAgentState(success) ==
  /\ LET phase == ChangePhase(credentials, success)
     IN /\ phase = "changed" => Len(timeouts) < MaxTimeouts
        /\ timeouts' = IF phase = "changed"
                       THEN Append(timeouts, Timeout("repoll", memo, 0))
                       ELSE timeouts
        /\ error' = IF phase = "failed" THEN "change" ELSE error
        /\ out' = ChangeOut(phase)
  /\ used' = ChangeUsed
  /\ UNCHANGED << credentials, agentStatus, isConnected, isAccountLocked,
                  remainingAttempts, memo, intervalRef, pauseTimeoutRef,
                  realtimeIntervalRef, lastStatusRef, inflight, storage,
                  runNotifs, failStreak, loggedOut >>
  /\ SettingsUnchanged /\ ClockUnchanged /\ ServicesUnchanged

\* the oldest one-second timeout fires: the delayed startStatusCheck of a
\* reconfiguration, or the delayed re-poll of changeAgentState
TimeoutFire ==
  /\ timeouts # <<>>
  /\ LET t == Head(timeouts)
     IN /\ timeouts' = Tail(timeouts)
        /\ IF t.kind = "restart"
           THEN /\ BeginCheck("restart", t.env, None)
                /\ intervalRef' = Some(Interval(t.env, t.period))
                /\ pauseTimeoutRef' = None
                /\ realtimeIntervalRef' = Some(Interval(t.env, RealtimePeriod))
           ELSE /\ BeginCheck("check", t.env, t.env.credentials)
                /\ UNCHANGED << intervalRef, pauseTimeoutRef, realtimeIntervalRef >>
  /\ UNCHANGED << credentials, agentStatus, isAccountLocked, remainingAttempts,
                  memo, lastStatusRef, storage, runNotifs, failStreak, loggedOut >>
  /\ SettingsUnchanged /\ ClockUnchanged /\ ServicesUnchanged

\* does a poll that ended this way send DEVICE_ERROR? (line 107; shouldMonitor
\* is the constant of line 74, true whenever connectApi was called)
\* (preceded by a faulty variant that does not ask for the working hours)
NotifiesErrorAnyHour(ok, within) == ~ok
NotifiesError(ok, within) == ~ok /\ within

\* the answer of connectApi reaches the status check that is i-th in flight:
\* the rest of checkAgentStatus, handleStatusNotifications included
PollComplete(i, resp) ==
  /\ i \in 1..Len(inflight)
  /\ LET p == inflight[i]
         e == p.env
         ok == resp.success /\ resp.data # None
         key == StatusKey(Get(resp.data))
         entered == ok /\ StatusChanged(lastStatusRef, key)
         within == isWithinWorkingHours(e.scheduleSettings, wall)
         acts == Acts(entered, within)
         branch == IF acts THEN handleBranch(Get(resp.data)) ELSE "none"
         statusNotifs == IF branch \in {"notReady", "notReadyGeneric"}
                         THEN << sendNotification(e, "NOT_READY", 0) >>
                         ELSE <<>>
         errorNotifs == IF NotifiesError(ok, within)
                        THEN << sendNotification(e, "DEVICE_ERROR", 0) >>
                        ELSE <<>>
         interval1 == IF acts THEN None ELSE intervalRef
         pause1 == IF acts
                   THEN (IF branch = "pause"
                         THEN Some(PauseTimeout(e, now + PauseDelay(e.timerSettings)))
                         ELSE None)
                   ELSE pauseTimeoutRef
         realtime1 == IF acts THEN Some(Interval(e, RealtimePeriod)) ELSE realtimeIntervalRef
     IN /\ inflight' = SubSeq(inflight, 1, i - 1) \o SubSeq(inflight, i + 1, Len(inflight))
        /\ agentStatus' = IF ok THEN resp.data ELSE agentStatus
        /\ isConnected' = ok
        /\ error' = IF ok THEN "none" ELSE "connection"
        /\ storage' = IF ok THEN saveAgentStatus(storage, Get(resp.data), now) ELSE storage
        /\ lastStatusRef' = IF entered THEN Some(key) ELSE lastStatusRef
        \* initializeApp goes on with startStatusCheck of the first render
        /\ intervalRef' = IF p.init THEN Some(Interval(MountEnv, DefaultStandardTimer))
                          ELSE interval1
        /\ pauseTimeoutRef' = IF p.init THEN None ELSE pause1
        /\ realtimeIntervalRef' = IF p.init THEN Some(Interval(MountEnv, RealtimePeriod))
                                  ELSE realtime1
        /\ out' = WithinOut(Out(IF ok THEN "pollOk" ELSE "pollFail",
                                IF ok /\ lastStatusRef = Some(key) THEN "same" ELSE "other",
                                0, statusNotifs \o errorNotifs, Len(statusNotifs),
                                entered, branch = "pause" /\ ~p.init),
                            entered /\ within, p.init)
        /\ runNotifs' = RunAfter(lastStatusRef', Len(statusNotifs))
  /\ UNCHANGED << credentials, isAccountLocked, remainingAttempts, memo, timeouts,
                  failStreak, loggedOut, used >>
  /\ SettingsUnchanged /\ ClockUnchanged /\ ServicesUnchanged

\* the pause-deadline timer fires
PauseFire ==
  /\ pauseTimeoutRef # None
  /\ ~Get(pauseTimeoutRef).fired
  /\ now >= Get(pauseTimeoutRef).deadline
  /\ LET e == Get(pauseTimeoutRef).env
     IN out' = Out("pauseFire", "none", 0,
                   << sendNotification(e, "TIME_EXCEEDED", e.timerSettings.pauseTimer) >>,
                   1, FALSE, FALSE)
  /\ pauseTimeoutRef' = Some([Get(pauseTimeoutRef) EXCEPT !.fired = TRUE])
  /\ runNotifs' = RunAfter(lastStatusRef, 1)
  /\ UNCHANGED << credentials, agentStatus, isConnected, error, isAccountLocked,
                  remainingAttempts, memo, intervalRef, realtimeIntervalRef,
                  lastStatusRef, timeouts, inflight, storage, failStreak, loggedOut,
                  used >>
  /\ SettingsUnchanged /\ ClockUnchanged /\ ServicesUnchanged

\* the effect "restart monitoring when the settings change", run by the render
\* that follows a change of standardTimer, scheduleSettings or isFinesseOpen:
\* the refs and the queue of timeouts it leaves, starting from the given ones
EffectRuns(connected, creds) == connected /\ creds # None
RefAfterEffect(runs, ref) == IF runs THEN None ELSE ref
TimeoutsAfterEffect(runs, queue, e, period) ==
  IF runs THEN Append(queue, Timeout("restart", e, period)) ELSE queue

\* the detector reports that the Finesse client was opened or closed
SetFinesseOpen(isOpen) ==
  /\ isOpen # isFinesseOpen
  /\ LET e == Env(credentials, isOpen, scheduleSettings, timerSettings, notificationConfig)
         runs == EffectRuns(isConnected, credentials)
     IN /\ runs => Len(timeouts) < MaxTimeouts
        /\ isFinesseOpen' = isOpen
        /\ memo' = e
        /\ intervalRef' = RefAfterEffect(runs, intervalRef)
        /\ pauseTimeoutRef' = RefAfterEffect(runs, pauseTimeoutRef)
        /\ realtimeIntervalRef' = RefAfterEffect(runs, realtimeIntervalRef)
        /\ timeouts' = TimeoutsAfterEffect(runs, timeouts, e, timerSettings.standardTimer)
  /\ out' = Quiet("config")
  /\ used' = ChangeUsed
  /\ UNCHANGED << credentials, agentStatus, isConnected, error, isAccountLocked,
                  remainingAttempts, timerSettings, notificationConfig,
                  scheduleSettings, lastStatusRef, inflight, storage, runNotifs,
                  failStreak, loggedOut >>
  /\ ClockUnchanged /\ ServicesUnchanged

\* updateScheduleSettings(settings): saved without validation, then the effect
UpdateScheduleSettings(settings) ==
  /\ credentials # None
  /\ LET e == Env(credentials, isFinesseOpen, settings, timerSettings, notificationConfig)
         runs == EffectRuns(isConnected, credentials)
     IN /\ runs => Len(timeouts) < MaxTimeouts
        /\ storage' = [storage EXCEPT !.scheduleSettings = Some(settings)]
        /\ scheduleSettings' = settings
        /\ memo' = e
        /\ intervalRef' = RefAfterEffect(runs, intervalRef)
        /\ pauseTimeoutRef' = RefAfterEffect(runs, pauseTimeoutRef)
        /\ realtimeIntervalRef' = RefAfterEffect(runs, realtimeIntervalRef)
        /\ timeouts' = TimeoutsAfterEffect(runs, timeouts, e, timerSettings.standardTimer)
  /\ out' = Quiet("config")
  /\ used' = ChangeUsed
  /\ UNCHANGED << credentials, agentStatus, isConnected, error, isAccountLocked,
                  remainingAttempts, timerSettings, notificationConfig,
                  isFinesseOpen, lastStatusRef, inflight, runNotifs,
                  failStreak, loggedOut >>
  /\ ClockUnchanged /\ ServicesUnchanged

\* updateTimerSettings(settings): on success the handler stops the timers and
\* schedules startStatusCheck of its own render; the render that follows runs
\* the effect when standardTimer changed
UpdateTimerSettings(settings) ==
  /\ credentials # None
  /\ LET success == TimerSettingsAccepted(settings)
         handler == success /\ isConnected /\ credentials # None
         effect == success /\ settings.standardTimer # timerSettings.standardTimer
                   /\ EffectRuns(isConnected, credentials)
         queue1 == IF handler
                   THEN Append(timeouts, Timeout("restart", memo, timerSettings.standardTimer))
                   ELSE timeouts
         queue2 == TimeoutsAfterEffect(effect, queue1, memo, settings.standardTimer)
     IN /\ Len(queue2) <= MaxTimeouts
        /\ storage' = saveTimerSettings(storage, settings)
        /\ timerSettings' = IF success THEN settings ELSE timerSettings
        /\ intervalRef' = RefAfterEffect(handler, intervalRef)
        /\ pauseTimeoutRef' = RefAfterEffect(handler, pauseTimeoutRef)
        /\ realtimeIntervalRef' = RefAfterEffect(handler, realtimeIntervalRef)
        /\ timeouts' = queue2
        /\ out' = IF success THEN Quiet("config") ELSE RejectedOut(settings)
        /\ used' = IF success THEN ChangeUsed ELSE used
  /\ UNCHANGED << credentials, agentStatus, isConnected, error, isAccountLocked,
                  remainingAttempts, notificationConfig, scheduleSettings,
                  isFinesseOpen, memo, lastStatusRef, inflight, runNotifs,
                  failStreak, loggedOut >>
  /\ ClockUnchanged /\ ServicesUnchanged

\* updateNotificationConfig(config): the state follows what the store accepts;
\* checkAgentStatus is not memoized anew by it
NotificationOut(config, success) ==
  [Quiet(IF success THEN "notification" ELSE "notification rejected")
     EXCEPT !.arg = Some(config)]
UpdateNotificationConfig(config) ==
  /\ credentials # None
  /\ LET success == WebhookAccepted(config)
     IN /\ storage' = saveNotificationConfig(storage, config)
        /\ notificationConfig' = IF success THEN config ELSE notificationConfig
        /\ out' = NotificationOut(config, success)
        /\ used' = IF success THEN ChangeUsed ELSE used
  /\ UNCHANGED << credentials, agentStatus, isConnected, error, isAccountLocked,
                  remainingAttempts, timerSettings, scheduleSettings,
                  isFinesseOpen, memo, lastStatusRef, inflight, runNotifs,
                  failStreak, loggedOut >>
  /\ TimersUnchanged /\ ClockUnchanged /\ ServicesUnchanged

\* the page is loaded again: every timer and pending answer of the old page is
\* gone, the store is kept, and initializeApp runs in the first render
Reload ==
  LET savedCredentials == getCredentials(storage, now)
      st0 == StoreAfterGetCredentials(storage, now)
      savedTimerSettings == IF storage.timerSettings = None THEN DefaultTimerSettings
                            ELSE Get(storage.timerSettings)
      savedScheduleSettings == IF storage.scheduleSettings = None
                               THEN getDefaultScheduleSettings
                               ELSE Get(storage.scheduleSettings)
      username == Get(savedCredentials).username
      locked == savedCredentials # None /\ StoreIsAccountLocked(st0, username, now)
      resumes == savedCredentials # None /\ ~locked
      st1 == IF savedCredentials = None THEN st0
             ELSE IF locked THEN removeCredentials(st0)
             ELSE StoreAfterLockCheck(st0, username, now)
      savedNotificationConfig == getNotificationConfig(storage)
      phase == IF resumes THEN CheckPhase(MountEnv, savedCredentials) ELSE "noop"
      started == resumes /\ phase # "poll"
  IN /\ storage' = st1
     /\ timerSettings' = savedTimerSettings
     /\ notificationConfig' = savedNotificationConfig
     /\ scheduleSettings' = savedScheduleSettings
     /\ isFinesseOpen' = TRUE
     /\ credentials' = IF resumes THEN savedCredentials ELSE None
     /\ agentStatus' = None
     /\ isConnected' = FALSE
     /\ error' = IF locked THEN "session" ELSE ErrAfter(phase, "none")
     /\ isAccountLocked' = locked
     /\ remainingAttempts' = InitialRemainingAttempts
     /\ memo' = Env(credentials', TRUE, savedScheduleSettings, savedTimerSettings,
                    savedNotificationConfig)
     /\ lastStatusRef' = None
     /\ inflight' = IF phase = "poll" THEN << Poll(MountEnv, savedCredentials, TRUE) >>
                    ELSE <<>>
     /\ timeouts' = <<>>
     /\ intervalRef' = IF started THEN Some(Interval(MountEnv, DefaultStandardTimer))
                       ELSE None
     /\ pauseTimeoutRef' = None
     /\ realtimeIntervalRef' = IF started THEN Some(Interval(MountEnv, RealtimePeriod))
                               ELSE None
     /\ out' = Out("reload", phase, ApiOf(phase), <<>>, 0, FALSE, FALSE)
     /\ runNotifs' = 0
     /\ loggedOut' = FALSE
     /\ used' = PollUsed(SessionUsed, "reload", phase)
     /\ Room("reload", phase)
     /\ UNCHANGED failStreak
     /\ ClockUnchanged /\ ServicesUnchanged

\* ---------------------------------------------------------- specifications
\* one session at a time of one user, followed through its status checks
SessionCredentials == {[username |-> "ana@totvs.com.br"]}
SessionResponses ==
  {ApiSuccess(Status("READY", None, TRUE)), ApiSuccess(Status("NOT_READY", Some("-1"), TRUE))}
MaySession == used < MaxOps
MayChange == used < MaxOps

Next ==
  \/ \E c \in SessionCredentials, resp \in SessionResponses : MaySession /\ Login(c, resp)
  \/ Logout
  \/ Advance(1, MaxTime)
  \/ IntervalTick
  \/ RealtimeTick
  \/ RefreshStatus
  \/ \E success \in BOOLEAN : MayChange /\ ChangeAgentState(success)
  \/ TimeoutFire
  \/ \E i \in 1..MaxInFlight, resp \in PollResponses : PollComplete(i, resp)
  \/ PauseFire
  \/ \E isOpen \in BOOLEAN : MayChange /\ SetFinesseOpen(isOpen)
  \/ \E settings \in ScheduleInputs : MayChange /\ UpdateScheduleSettings(settings)
  \/ \E settings \in TimerInputs : MayChange /\ UpdateTimerSettings(settings)
  \/ MaySession /\ Reload

Spec == Init /\ [][Next]_vars

\* steps of the clock that land just before and exactly on the end of a lockout
LoginTimeSteps == {LockoutDuration \div 2, LockoutDuration - (LockoutDuration \div 2)}

\* the login and lockout part alone, over a horizon that covers the lockout
NextLogin ==
  \/ \E c \in Credentials, resp \in LoginResponses : Login(c, resp)
  \/ Logout
  \/ \E d \in LoginTimeSteps : Advance(d, MaxLoginTime)
  \/ Reload

SpecLogin == Init /\ [][NextLogin]_vars

\* the notification settings and what sendNotification does with them, at one
\* moment of a working day
NotifyLogins == {ApiSuccess(Status("READY", None, TRUE))}
NotifyResponses == {ApiSuccess(Status("NOT_READY", Some("-1"), TRUE))}
NotifySchedules == {NotifyAlwaysSettings}
InitNotify ==
  /\ InitSession
  /\ start = [day |-> 1, time |-> HHmm(9, 0)]
  /\ InitServices

NextNotify ==
  \/ \E c \in SessionCredentials, resp \in NotifyLogins : MaySession /\ Login(c, resp)
  \/ \E config \in NotificationInputs : UpdateNotificationConfig(config)
  \/ \E settings \in NotifySchedules : UpdateScheduleSettings(settings)
  \/ TimeoutFire
  \/ \E i \in 1..MaxInFlight, resp \in NotifyResponses : PollComplete(i, resp)
  \/ MaySession /\ Reload

SpecNotify == InitNotify /\ [][NextNotify]_vars

\* ------------------------------------------------------- the remote client
\* A string whose characters matter is the sequence of its characters; a
\* character is a one-letter string, and "U+20AC" stands for the euro sign,
\* a character above U+00FF.
UpperCase == << "A", "B", "C", "M", "O", "R", "S", "T", "V" >>
LowerCase == << "a", "b", "c", "m", "o", "r", "s", "t", "v" >>
toLowerCase(s) ==
  [i \in 1..Len(s) |->
     IF \E k \in DOMAIN UpperCase : UpperCase[k] = s[i]
     THEN LowerCase[CHOOSE k \in DOMAIN UpperCase : UpperCase[k] = s[i]]
     ELSE s[i]]
endsWith(s, suffix) ==
  /\ Len(suffix) <= Len(s)
  /\ \A i \in 1..Len(suffix) : s[Len(s) - Len(suffix) + i] = suffix[i]
includes(s, ch) == \E i \in 1..Len(s) : s[i] = ch
Digits == {"0", "1", "2", "3", "4", "5", "6", "7", "8", "9"}

\* NEXT_PUBLIC_ALLOWED_EMAIL_DOMAINS when the environment does not set it
allowedDomains ==
  << << "@", "j", "v", "0", "1", ".", "l", "o", "c", "a", "l" >>,
     << "@", "t", "o", "t", "v", "s", ".", "c", "o", "m", ".", "b", "r" >> >>
MinPasswordLength == 4

validateEmailDomain(email) ==
  \E k \in DOMAIN allowedDomains :
     endsWith(toLowerCase(email), toLowerCase(allowedDomains[k]))

\* /^\d{2}\.\d{3}\.\d{3}$/.test(agentId)
agentIdPattern(agentId) ==
  /\ Len(agentId) = 10
  /\ \A i \in {1, 2, 4, 5, 6, 8, 9, 10} : agentId[i] \in Digits
  /\ agentId[3] = "." /\ agentId[7] = "."

Invalid(message) == [valid |-> FALSE, error |-> message]
Valid == [valid |-> TRUE, error |-> ""]

\* faulty variant of validateCredentials: passwords of three characters pass
validateCredentialsShortPassword(c) ==
  IF c.username = <<>> \/ ~includes(c.username, "@") THEN Invalid("Email invalido")
  ELSE IF ~validateEmailDomain(c.username)
       THEN Invalid("Dominio de email nao autorizado")
  ELSE IF ~agentIdPattern(c.agentId)
       THEN Invalid("Formato de Agent ID invalido (ex: 99.999.999)")
  ELSE IF c.password = <<>> \/ Len(c.password) < MinPasswordLength - 1
       THEN Invalid("Senha deve ter pelo menos 4 caracteres")
  ELSE Valid
validateCredentials(c) ==
  IF c.username = <<>> \/ ~includes(c.username, "@") THEN Invalid("Email invalido")
  ELSE IF ~validateEmailDomain(c.username)
       THEN Invalid("Dominio de email nao autorizado")
  ELSE IF ~agentIdPattern(c.agentId)
       THEN Invalid("Formato de Agent ID invalido (ex: 99.999.999)")
  ELSE IF c.password = <<>> \/ Len(c.password) < MinPasswordLength
       THEN Invalid("Senha deve ter pelo menos 4 caracteres")
  ELSE Valid

\* btoa(username + ":" + password) throws on a character above U+00FF, and
\* createAuthHeader throws in its turn
createAuthHeaderThrows(username, password) ==
  includes(username \o << ":" >> \o password, "U+20AC")

\* the inputs of the client's operations
ClientUsernames ==
  { << "a", "@", "t", "o", "t", "v", "s", ".", "c", "o", "m", ".", "b", "r" >>,
    << "A", "@", "T", "O", "T", "V", "S", ".", "C", "O", "M", ".", "B", "R" >>,
    << "a", "@", "x", ".", "c", "o", "m" >>,
    << "a", "@", "t", "o", "t", "v", "s", ".", "c", "o", "m", ".", "b", "r", ".", "x" >>,
    << >> }
ClientAgentIds ==
  { << "1", "2", ".", "3", "4", "5", ".", "6", "7", "8" >>,
    << "1", "2", ".", "3", "4", "5", ".", "6", "7" >>,
    << "1", "2", "a", "3", "4", "5", ".", "6", "7", "8" >>,
    << "1", "2", ".", "3", "4", "5", ".", "6", "7", "8", "9" >> }
ClientPasswords ==
  { << "a", "b", "c", "d" >>, << "a", "b", "c" >>, << "a", "b", "c", "U+20AC" >>, << >> }
\* credentials that pass every check, and those that differ from them in one
\* field
WellFormed ==
  [username |-> << "a", "@", "t", "o", "t", "v", "s", ".", "c", "o", "m", ".", "b", "r" >>,
   agentId |-> << "1", "2", ".", "3", "4", "5", ".", "6", "7", "8" >>,
   password |-> << "a", "b", "c", "d" >>]
ClientCredentials ==
  {[WellFormed EXCEPT !.username = u] : u \in ClientUsernames}
    \cup {[WellFormed EXCEPT !.agentId = a] : a \in ClientAgentIds}
    \cup {[WellFormed EXCEPT !.password = p] : p \in ClientPasswords}
ClientCalls ==
  { [op |-> "connectApi", state |-> "", reasonCodeId |-> None],
    [op |-> "getReasonCodes", state |-> "", reasonCodeId |-> None],
    [op |-> "changeAgentState", state |-> "READY", reasonCodeId |-> None],
    [op |-> "changeAgentState", state |-> "NOT_READY", reasonCodeId |-> None],
    [op |-> "changeAgentState", state |-> "NOT_READY", reasonCodeId |-> Some("2")],
    [op |-> "changeAgentState", state |-> "READY", reasonCodeId |-> Some("2")],
    [op |-> "changeAgentState", state |-> "NOT_READY", reasonCodeId |-> Some("")] }
FallbackUrls == {PrimaryUrl, SecondaryUrl}
Statuses == {200, 401, 404, 409, 500}
\* what an answered request carries: nothing, text that is not XML, an
\* ApiErrors document with or without a message, or one of two documents
Bodies == {"empty", "text", "ApiErrors", "ApiErrorsBare", "documentA", "documentB"}

\* the tagged results (ApiResponse); status is 0 when the message has none
ClientFailure(message, status) ==
  [success |-> FALSE, error |-> [message |-> message, status |-> status], data |-> None]
ClientSuccess(d) ==
  [success |-> TRUE, error |-> [message |-> "", status |-> 0], data |-> Some(d)]
Returned(r) == [kind |-> "returned", value |-> r]
Thrown(message) == [kind |-> "thrown", value |-> ClientFailure(message, 0)]

\* tryConnection, tryStateChange, tryGetReasonCodes: a response that is not ok
StatusFailure(op, status) ==
  IF op = "connectApi"
  THEN IF status = 401 THEN ClientFailure("Credenciais invalidas", 0)
       ELSE IF status = 404 THEN ClientFailure("Agent ID nao encontrado", 0)
       ELSE ClientFailure("Erro do servidor", status)
  ELSE IF op = "changeAgentState"
  THEN IF status = 401 THEN ClientFailure("Nao autorizado", 0)
       ELSE IF status = 409
            THEN ClientFailure("Estado nao pode ser alterado no momento", 0)
       ELSE ClientFailure("Erro ao alterar status", status)
  ELSE ClientFailure("Erro ao buscar codigos de motivo", status)

\* the same three, once the text of an ok response has been read
BodyResult(op, body) ==
  IF body = "empty" /\ op = "connectApi"
  THEN ClientFailure("Resposta vazia do servidor", 0)
  ELSE IF body \in {"empty", "text"}
  THEN ClientFailure("Falha ao processar resposta do servidor", 0)
  ELSE IF body = "ApiErrors" THEN ClientFailure("ErrorMessage", 0)
  ELSE IF body = "ApiErrorsBare"
  THEN ClientFailure(IF op = "connectApi" THEN "Erro na API do Finesse"
                     ELSE IF op = "changeAgentState" THEN "Erro na alteracao do estado"
                     ELSE "Erro ao buscar codigos", 0)
  ELSE ClientSuccess(body)

\* faulty variant of NeedsFallback: the fallback is tried after a success too
NeedsFallbackAlways(r) == fallbackUrl # baseUrl
NeedsFallback(r) == ~r.success /\ fallbackUrl # baseUrl

\* makeRequest tries once more after an abort of its first try
RetriesAfter(retryCount, errorName) == retryCount = 0 /\ errorName = "AbortError"

\* makeRequest calls fetch and arms the abort timer
Send(url, retryCount) ==
  /\ requests' = Append(requests, [url |-> url, retryCount |-> retryCount,
                                   outcome |-> "pending"])
  /\ pending' = Some([url |-> url, retryCount |-> retryCount, stage |-> "fetch",
                      timer |-> TRUE])
Settled(outcome) == [requests EXCEPT ![Len(requests)].outcome = outcome]

\* the operation returns r, or throws
Finish(r) ==
  /\ result' = Some(r)
  /\ pending' = None

\* one endpoint has answered r: the primary's failure goes to the fallback
EndpointAnswers(r, outcome) ==
  /\ tried' = Append(tried, [url |-> Get(pending).url, result |-> r])
  /\ IF tried = <<>> /\ NeedsFallback(r)
     THEN /\ requests' = Append(Settled(outcome),
                                [url |-> fallbackUrl, retryCount |-> 0,
                                 outcome |-> "pending"])
          /\ pending' = Some([url |-> fallbackUrl, retryCount |-> 0,
                              stage |-> "fetch", timer |-> TRUE])
          /\ result' = result
     ELSE /\ requests' = Settled(outcome)
          /\ Finish(Returned(r))

\* a reasonCodeId that is neither undefined nor the empty string
Supplied(reasonCodeId) == reasonCodeId # None /\ Get(reasonCodeId) # ""

\* the document changeAgentState builds, as the elements of <User>; None when
\* it builds none
\* faulty variant of stateXml: a supplied reason code is always sent
stateXmlWithReason(state, reasonCodeId) ==
  IF state = "NOT_READY" /\ Supplied(reasonCodeId)
  THEN Some([state |-> state, reasonCodeId |-> reasonCodeId])
  ELSE IF state = "READY"
  THEN Some([state |-> state,
             reasonCodeId |-> IF Supplied(reasonCodeId) THEN reasonCodeId ELSE None])
  ELSE None
stateXml(state, reasonCodeId) ==
  IF state = "NOT_READY" /\ Supplied(reasonCodeId)
  THEN Some([state |-> state, reasonCodeId |-> reasonCodeId])
  ELSE IF state = "READY"
  THEN Some([state |-> state, reasonCodeId |-> None])
  ELSE None

\* connectApi(c), changeAgentState(c, state, reasonCodeId), getReasonCodes(c);
\* body is what every request of the operation carries
ClientCall(k, c) ==
  /\ pending = None
  /\ call' = Some([op |-> k.op, credentials |-> c, state |-> k.state,
                   reasonCodeId |-> k.reasonCodeId,
                   body |-> IF k.op = "changeAgentState"
                            THEN stateXml(k.state, k.reasonCodeId) ELSE None])
  /\ tried' = <<>>
  /\ LET validation == validateCredentials(c)
     IN IF ~validation.valid
        THEN /\ Finish(Returned(ClientFailure(validation.error, 0)))
             /\ requests' = <<>>
        ELSE IF createAuthHeaderThrows(c.username, c.password)
        THEN /\ Finish(Thrown("Erro ao criar header de autenticacao"))
             /\ requests' = <<>>
        ELSE IF k.op = "changeAgentState" /\ stateXml(k.state, k.reasonCodeId) = None
        THEN /\ Finish(Returned(ClientFailure(
                         "Estado invalido ou codigo de motivo obrigatorio", 0)))
             /\ requests' = <<>>
        ELSE /\ requests' = << [url |-> baseUrl, retryCount |-> 0,
                                outcome |-> "pending"] >>
             /\ pending' = Some([url |-> baseUrl, retryCount |-> 0,
                                 stage |-> "fetch", timer |-> TRUE])
             /\ result' = None
  /\ UNCHANGED << baseUrl, fallbackUrl >>
  /\ ClientOnly

Fetching == pending # None /\ Get(pending).stage = "fetch"

\* fetch resolves with the head of a response: the abort timer is cleared;
\* a response that is not ok is answered at once, the text of an ok one is read
FetchResponds(status) ==
  /\ Fetching
  /\ IF status \in 200..299
     THEN /\ pending' = Some([Get(pending) EXCEPT !.stage = "body", !.timer = FALSE])
          /\ requests' = Settled("responded")
          /\ UNCHANGED << tried, result >>
     ELSE EndpointAnswers(StatusFailure(Get(call).op, status), "responded")
  /\ UNCHANGED << baseUrl, fallbackUrl, call >>
  /\ ClientOnly

\* fetch rejects: the abort timer fired (AbortError) or the network failed
\* (TypeError); makeRequest tries once more after an abort of its first try
FetchRejects(errorName) ==
  /\ Fetching
  /\ IF RetriesAfter(Get(pending).retryCount, errorName)
     THEN /\ requests' = Append(Settled(errorName),
                                [url |-> Get(pending).url, retryCount |-> 1,
                                 outcome |-> "pending"])
          /\ pending' = Some([Get(pending) EXCEPT !.retryCount = 1])
          /\ UNCHANGED << tried, result >>
     ELSE EndpointAnswers(ClientFailure(errorName, 0), errorName)
  /\ UNCHANGED << baseUrl, fallbackUrl, call >>
  /\ ClientOnly

Reading == pending # None /\ Get(pending).stage = "body"

\* response.text() resolves
BodyArrives(body) ==
  /\ Reading
  /\ EndpointAnswers(BodyResult(Get(call).op, body), "responded")
  /\ UNCHANGED << baseUrl, fallbackUrl, call >>
  /\ ClientOnly

\* response.text() rejects: the connection broke while the text was read
BodyRejects ==
  /\ Reading
  /\ EndpointAnswers(ClientFailure("TypeError", 0), "responded")
  /\ UNCHANGED << baseUrl, fallbackUrl, call >>
  /\ ClientOnly

InitClient ==
  /\ InitSession
  /\ start = [day |-> 1, time |-> HHmm(9, 0)]
  /\ \E fallback \in FallbackUrls : InitService(fallback)
  /\ InitRateLimit /\ InitScheduleIdle /\ InitCryptoIdle /\ InitStoreIdle
  /\ InitDetectorIdle
  /\ InitNextTimeIdle
  /\ InitTimersIdle

NextClient ==
  \/ \E k \in ClientCalls, c \in ClientCredentials : ClientCall(k, c)
  \/ \E status \in Statuses : FetchResponds(status)
  \/ \E errorName \in {"AbortError", "TypeError"} : FetchRejects(errorName)
  \/ \E body \in Bodies : BodyArrives(body)
  \/ BodyRejects

SpecClient == InitClient /\ [][NextClient]_vars

\* --------------------------------------------------------- the rate limiter
\* NEXT_PUBLIC_RATE_LIMIT_MAX_REQUESTS and NEXT_PUBLIC_RATE_LIMIT_WINDOW_MS
\* when the environment does not set them; times are in milliseconds
MaxRequests == 5
WindowMs == 60000
\* the clock moves by a third of the window, MaxRateSteps times at most, and
\* MaxRateCalls operations are made at most
RateStep == 20000
MaxRateSteps == 4
MaxRateCalls == 7
NearLimitTenths == 8

\* user ids are e-mail addresses and endpoints are names: neither holds a colon
RateUserIds == {"ana@totvs.com.br"}
RateEndpoints == {"default", "login"}
RatePairs == RateUserIds \X RateEndpoints
RateKey(userId, endpoint) == userId \o ":" \o endpoint

\* this.requests.get(key) || []
MapGet(m, key) == IF key \in DOMAIN m THEN m[key] ELSE <<>>
MapSet(m, key, v) == [k \in DOMAIN m \cup {key} |-> IF k = key THEN v ELSE m[k]]
MapDelete(m, keys) == [k \in DOMAIN m \ keys |-> m[k]]

\* requests.filter(req => now - req.timestamp < this.windowMs)
InsideWindow(timestamps, t) == SelectSeq(timestamps, LAMBDA ts : t - ts < WindowMs)

\* faulty variant of LimitReached: one request too many is let through
LimitReachedOffByOne(userRequests) == Len(userRequests) > MaxRequests
LimitReached(userRequests) == Len(userRequests) >= MaxRequests

\* faulty variant of RecordedAfterRejection: a rejected call stores the
\* filtered list with the time of the call
RecordedAfterRejectionPushed(m, key, userRequests, t) ==
  MapSet(m, key, Append(userRequests, t))
RecordedAfterRejection(m, key, userRequests, t) == m

\* how many calls of the pair were accepted in the window that ends at t
AcceptedInWindow(pair, t) ==
  Len(SelectSeq(MapGet(accepted, pair), LAMBDA ts : t - WindowMs < ts /\ ts <= t))

MayCall == rateCalls < MaxRateCalls

\* checkLimit(userId, endpoint)
CheckLimit(userId, endpoint) ==
  LET key == RateKey(userId, endpoint)
      userRequests == InsideWindow(MapGet(limiter, key), rateNow)
      rejected == LimitReached(userRequests)
  IN /\ MayCall
     /\ rateCalls' = rateCalls + 1
     /\ limiter' = IF rejected
                   THEN RecordedAfterRejection(limiter, key, userRequests, rateNow)
                   ELSE MapSet(limiter, key, Append(userRequests, rateNow))
     /\ accepted' = IF rejected THEN accepted
                    ELSE MapSet(accepted, << userId, endpoint >>,
                                Append(MapGet(accepted, << userId, endpoint >>), rateNow))
     /\ rateOut' = [op |-> "checkLimit", pair |-> << userId, endpoint >>,
                    allowed |-> ~rejected,
                    before |-> AcceptedInWindow(<< userId, endpoint >>, rateNow)]
     /\ UNCHANGED rateNow
     /\ RateOnly

\* Math.ceil(ms / 1000)
\* (preceded by a faulty variant that rounds down)
FloorSeconds(ms) == ms \div 1000
CeilSeconds(ms) == (ms + 999) \div 1000

\* getStats(userId, endpoint)
Stats(userId, endpoint) ==
  LET userRequests == InsideWindow(MapGet(limiter, RateKey(userId, endpoint)), rateNow)
      resetIn == IF userRequests = <<>> THEN 0
                 ELSE Max0(WindowMs - (rateNow - Head(userRequests)))
  IN [current |-> Len(userRequests),
      max |-> MaxRequests,
      remaining |-> Max0(MaxRequests - Len(userRequests)),
      resetIn |-> CeilSeconds(resetIn)]

\* getStats, isNearLimit (stats.current / stats.max >= 0.8) and getTimeToReset
ReadStats(op, userId, endpoint) ==
  /\ rateCalls' = rateCalls + 1
  /\ rateOut' = [op |-> op, pair |-> << userId, endpoint >>,
                 stats |-> Stats(userId, endpoint),
                 near |-> Stats(userId, endpoint).current * 10
                            >= NearLimitTenths * Stats(userId, endpoint).max,
                 resetIn |-> Stats(userId, endpoint).resetIn]
  /\ UNCHANGED << limiter, rateNow, accepted >>
  /\ RateOnly
GetStats(userId, endpoint) ==
  /\ MayCall
  /\ ReadStats("getStats", userId, endpoint)
IsNearLimit(userId, endpoint) ==
  /\ MayCall
  /\ ReadStats("isNearLimit", userId, endpoint)
GetTimeToReset(userId, endpoint) ==
  /\ MayCall
  /\ ReadStats("getTimeToReset", userId, endpoint)

\* cleanup(), run by the interval the constructor arms
Cleanup ==
  LET valid(k) == InsideWindow(limiter[k], rateNow)
      keysToDelete == {k \in DOMAIN limiter : valid(k) = <<>>}
  IN /\ limiter' = [k \in DOMAIN limiter \ keysToDelete |-> valid(k)]
     /\ limiter' # limiter
     /\ rateOut' = [op |-> "cleanup"]
     /\ UNCHANGED << rateNow, accepted, rateCalls >>
     /\ RateOnly

\* time passes
RateTick ==
  /\ rateNow < MaxRateSteps * RateStep
  /\ rateNow' = rateNow + RateStep
  /\ rateOut' = [op |-> "tick"]
  /\ UNCHANGED << limiter, accepted, rateCalls >>
  /\ RateOnly

InitRate ==
  /\ InitSession
  /\ start = [day |-> 1, time |-> HHmm(9, 0)]
  /\ InitService(SecondaryUrl)
  /\ InitRateLimit /\ InitScheduleIdle /\ InitCryptoIdle /\ InitStoreIdle
  /\ InitDetectorIdle
  /\ InitNextTimeIdle
  /\ InitTimersIdle

NextRate ==
  \/ \E p \in RatePairs : CheckLimit(p[1], p[2])
  \/ \E p \in RatePairs : GetStats(p[1], p[2])
  \/ \E p \in RatePairs : IsNearLimit(p[1], p[2])
  \/ \E p \in RatePairs : GetTimeToReset(p[1], p[2])
  \/ Cleanup
  \/ RateTick

SpecRate == InitRate /\ [][NextRate]_vars

\* ---------------------------------------------------- the schedule evaluator
\* settings put to the evaluator: the default week, the default week with
\* notifyOutsideHours, Monday alone, and Monday with a start or an end that
\* date-fns cannot parse
MondayOnly ==
  [workSchedules |->
     [i \in 1..Len(defaultSchedule) |->
        [defaultSchedule[i] EXCEPT !.enabled = (defaultSchedule[i].dayOfWeek = 1)]],
   notifyOutsideHours |-> FALSE]
MondayFrom(t) == [MondayOnly EXCEPT !.workSchedules[1].startTime = t]
MondayUntil(t) == [MondayOnly EXCEPT !.workSchedules[1].endTime = t]
ScheduleQuestions ==
  {None} \cup
  {Some(s) : s \in {getDefaultScheduleSettings, NotifyAlwaysSettings, MondayOnly,
                    MondayFrom(HHmm(24, 0)), MondayUntil(HHmm(18, 60)),
                    MondayUntil(HHmm(17, 30))}}
\* what new Date() can show: day of the week and HH:mm
WallClocks ==
  { [day |-> 1, time |-> HHmm(7, 59)], [day |-> 1, time |-> HHmm(8, 0)],
    [day |-> 1, time |-> HHmm(9, 0)], [day |-> 1, time |-> HHmm(18, 0)],
    [day |-> 1, time |-> HHmm(19, 0)], [day |-> 2, time |-> HHmm(9, 0)],
    [day |-> 0, time |-> HHmm(9, 0)] }

InitSchedule ==
  /\ InitSession
  /\ start = [day |-> 1, time |-> HHmm(9, 0)]
  /\ InitService(SecondaryUrl)
  /\ InitRateLimit /\ InitCryptoIdle /\ InitStoreIdle
  /\ InitDetectorIdle
  /\ InitNextTimeIdle
  /\ InitTimersIdle
  /\ schSettings \in ScheduleQuestions
  /\ schWall \in WallClocks
  /\ schOpen \in BOOLEAN
  /\ schAnswer = None

\* isWithinWorkingHours(settings) and shouldMonitor(isFinesseOpen, settings)
EvaluateSchedule ==
  /\ schAnswer = None
  /\ schAnswer' = Some([within |-> isWithinWorkingHoursOf(schSettings, schWall),
                        monitor |-> shouldMonitorOf(schOpen, schSettings, schWall)])
  /\ UNCHANGED << schSettings, schWall, schOpen >>
  /\ ScheduleOnly

NextSchedule == EvaluateSchedule

SpecSchedule == InitSchedule /\ [][NextSchedule]_vars

\* ------------------------------------------------------------- the cipher
\* the texts given to encrypt and generateHash
CryptoStrings == {"", "a", "senha", stringify([username |-> "ana@totvs.com.br"])}

InitCrypto ==
  /\ InitSession
  /\ start = [day |-> 1, time |-> HHmm(9, 0)]
  /\ InitService(SecondaryUrl)
  /\ InitRateLimit /\ InitScheduleIdle /\ InitStoreIdle
  /\ InitDetectorIdle
  /\ InitNextTimeIdle
  /\ InitTimersIdle
  /\ cryIn \in {CryptoQuestion(data, other, obj, salt) :
                   data \in CryptoStrings, other \in CryptoStrings,
                   obj \in JsonObjects, salt \in Salts}
  /\ cryOut = NothingDone

CryptoStep(field, value) ==
  /\ cryOut[field] = None
  /\ cryOut' = [cryOut EXCEPT ![field] = Some(value)]
  /\ UNCHANGED cryIn
  /\ CryptoOnly

\* encrypt(data), then decrypt of what it gave
Encrypt ==
  /\ cryOut.encrypted = None
  /\ CryptoStep("encrypted", encrypt(cryIn.data, cryIn.salt))
Decrypt ==
  /\ cryOut.encrypted # None
  /\ CryptoStep("decrypted", decrypt(Get(cryOut.encrypted)))

\* encryptObject(obj), then decryptObject of what it gave
EncryptObject ==
  /\ cryOut.objEncrypted = None
  /\ CryptoStep("objEncrypted", encryptObject(cryIn.obj, cryIn.salt))
DecryptObject ==
  /\ cryOut.objEncrypted # None
  /\ CryptoStep("objDecrypted", decryptObject(Get(cryOut.objEncrypted)))

\* generateHash(data), then validateHash of data and of the other text
\* against it
GenerateHash ==
  /\ cryOut.hash = None
  /\ CryptoStep("hash", generateHash(cryIn.data))
ValidateHash ==
  /\ cryOut.hash # None
  /\ CryptoStep("valid", [same |-> validateHash(cryIn.data, Get(cryOut.hash)),
                          other |-> validateHash(cryIn.other, Get(cryOut.hash))])

NextCrypto ==
  \/ Encrypt
  \/ Decrypt
  \/ EncryptObject
  \/ DecryptObject
  \/ GenerateHash
  \/ ValidateHash

SpecCrypto == InitCrypto /\ [][NextCrypto]_vars

\* ---------------------------------------------------- the credential store
\* the clock moves in steps that land exactly on the session timeout and
\* past it
StoreStep == SessionTimeout \div 2
MaxStoreSteps == 3
MaxStoreCalls == 4

\* what a stored record can turn into outside the program: a ciphertext that
\* is no ciphertext, one made with another key, one of the empty text, one of
\* a text that is no JSON, a ciphertext of these or of other credentials,
\* another hash
DamagedCiphertexts ==
  {Garbage, encrypt("", 1), encrypt("ana", 1)}
    \cup {Ciphertext(stringify(o), OtherKey, 1) : o \in Credentials}
    \cup {encryptObject(o, 2) : o \in Credentials}
DamagedHashes == {generateHash(stringify(o)) : o \in Credentials} \cup {SHA256("")}

MayStore == stCalls < MaxStoreCalls

StoreSave(c) ==
  /\ MayStore
  /\ storage' = saveCredentials(storage, c, now)
  /\ stCalls' = stCalls + 1
  /\ UNCHANGED << now, stOut >>
  /\ StoreOnly

StoreGet ==
  /\ MayStore
  /\ stCalls' = stCalls + 1
  /\ stOut' = [n |-> stCalls + 1, before |-> storage.secureCredentials,
               at |-> now, returned |-> getCredentials(storage, now)]
  /\ storage' = StoreAfterGetCredentials(storage, now)
  /\ UNCHANGED now
  /\ StoreOnly

StoreRemove ==
  /\ MayStore
  /\ storage.secureCredentials # None
  /\ storage' = removeCredentials(storage)
  /\ stCalls' = stCalls + 1
  /\ UNCHANGED << now, stOut >>
  /\ StoreOnly

\* the stored record is damaged outside the program
StoreDamage ==
  /\ MayStore
  /\ storage.secureCredentials # None
  /\ LET record == Get(storage.secureCredentials)
     IN \/ \E e \in DamagedCiphertexts :
             storage' = [storage EXCEPT !.secureCredentials =
                           Some([record EXCEPT !.encryptedData = e])]
        \/ \E h \in DamagedHashes :
             storage' = [storage EXCEPT !.secureCredentials =
                           Some([record EXCEPT !.hash = h])]
  /\ storage' # storage
  /\ stCalls' = stCalls + 1
  /\ UNCHANGED << now, stOut >>
  /\ StoreOnly

StoreTick ==
  /\ now + StoreStep <= MaxStoreSteps * StoreStep
  /\ now' = now + StoreStep
  /\ UNCHANGED << storage, stCalls, stOut >>
  /\ StoreOnly

InitStore ==
  /\ InitSession
  /\ start = [day |-> 1, time |-> HHmm(9, 0)]
  /\ InitService(SecondaryUrl)
  /\ InitRateLimit /\ InitScheduleIdle /\ InitCryptoIdle /\ InitStoreIdle
  /\ InitDetectorIdle
  /\ InitNextTimeIdle
  /\ InitTimersIdle

NextStore ==
  \/ \E c \in Credentials : StoreSave(c)
  \/ StoreGet
  \/ StoreRemove
  \/ StoreDamage
  \/ StoreTick

SpecStore == InitStore /\ [][NextStore]_vars

\* ------------------------------------------------------------- properties
\* the credentials the stored record was made from
RecordCredentials(st) == Get(decryptObject(Get(st.secureCredentials).encryptedData))

\* the whole session so far lies inside the default working window
SessionWithinHours ==
  /\ isWithinWorkingHours(getDefaultScheduleSettings, WallAt(start, 0))
  /\ isWithinWorkingHours(getDefaultScheduleSettings, wall)

\* C1 (as amended): handleStatusNotifications is entered by a successful status
\* check exactly when the key (state, reasonCodeId) of the answer differs from
\* the last-observed key; a check that answers the last-observed key sends no
\* notification, asks for no focus and arms no timer; and the checks and the
\* deadline of one run of identical answers send at most one status
\* notification in total.
C1_Dedup ==
  /\ out.op = "pollOk" => (out.entered <=> out.phase = "other")
  /\ (out.op = "pollOk" /\ out.phase = "same") =>
        (out.notifs = <<>> /\ out.focus = 0 /\ ~out.armed)
  /\ runNotifs <= 1

\* C1 as stated: a run of identical answers within working hours has produced
\* exactly one notification whenever an answer repeats the last-observed key.
C1_ExactlyOnePerRun ==
  (out.op = "pollOk" /\ out.phase = "same" /\ SessionWithinHours) => runNotifs = 1

\* a repeated answer in a run that did send its one notification
C1_Witness ==
  /\ out.op = "pollOk" /\ out.phase = "same" /\ SessionWithinHours
  /\ runNotifs = 1
  /\ lastStatusRef = Some(<<"NOT_READY", "-1">>)

\* C2: a login within working hours whose connectApi answer is NOT_READY with
\* reason code -1, or NOT_READY with a reason code that does not parse, issues
\* exactly one NOT_READY notification and exactly one focus request at once.
C2_LoginNotReadyNotifies ==
  (/\ out.op = "loginOk"
   /\ handleBranch(Get(Get(out.resp).data)) \in {"notReady", "notReadyGeneric"}
   /\ isWithinWorkingHours(scheduleSettings, wall))
  => (/\ Len(out.notifs) = 1
      /\ out.notifs[1].type = "NOT_READY"
      /\ out.focus = 1)

\* C3: an observed transition to a reason code > 0 sends nothing at once and
\* arms a deadline pauseTimer minutes ahead, pauseTimer being the configured
\* value; the TIME_EXCEEDED notification carries the configured pauseTimer and
\* is not sent before the deadline.
C3_PauseDeadline ==
  /\ out.armed =>
       /\ out.notifs = <<>>
       /\ pauseTimeoutRef # None
       /\ Get(pauseTimeoutRef).deadline = now + timerSettings.pauseTimer
  /\ out.op = "pauseFire" =>
       /\ Len(out.notifs) = 1
       /\ out.notifs[1].type = "TIME_EXCEEDED"
       /\ out.notifs[1].param = timerSettings.pauseTimer
       /\ now >= Get(pauseTimeoutRef).deadline

C5_LockedLoginRejected ==
  [][out'.op = "loginLocked" =>
       /\ out'.api = 0
       /\ storage' = storage
       /\ credentials' = None /\ credentials = None
       /\ intervalRef' = intervalRef
       /\ pauseTimeoutRef' = pauseTimeoutRef
       /\ realtimeIntervalRef' = realtimeIntervalRef
       /\ timeouts' = timeouts
       /\ inflight' = inflight
       /\ isAccountLocked']_vars

\* a login rejected during a lockout, some time after the last failure
C5_Witness ==
  /\ out.op = "loginLocked"
  /\ storage.secureCredentials = None
  /\ now > getLoginAttempts(storage, Get(out.login).username).lastAttempt
  /\ getLoginAttempts(storage, Get(out.login).username).count = MaxLoginAttempts

\* the count of failed logins stored for the username of the last login
CountOf(st, o) == getLoginAttempts(st, Get(o.login).username).count

C9_NoOverlappingPolls == Len(inflight) <= 1

\* C10: after logout no interval and no timeout is pending, and no callback
\* that runs calls connectApi, sends a notification, asks for focus or arms a
\* timer.
C10_LogoutFinal ==
  (loggedOut /\ credentials = None) =>
     /\ timeouts = <<>>
     /\ intervalRef = None /\ pauseTimeoutRef = None /\ realtimeIntervalRef = None
     /\ out.op \in {"check", "restart", "pollOk", "pollFail", "pauseFire"} =>
          (out.api = 0 /\ out.notifs = <<>> /\ out.focus = 0 /\ ~out.armed)

\* C11: logout leaves no credentials and no agent status in memory, no
\* persisted credential record and no last-observed key; the persisted count
\* of failed logins of the user is 0 and the remaining attempts shown equal
\* maxLoginAttempts.
C11_LogoutErases ==
  [][(out'.op = "logout" /\ credentials # None) =>
       /\ credentials' = None
       /\ agentStatus' = None
       /\ storage'.secureCredentials = None
       /\ lastStatusRef' = None
       /\ getLoginAttempts(storage', Get(credentials).username).count = 0
       /\ remainingAttempts' = MaxLoginAttempts]_vars

\* timer settings that satisfy the documented constraint
ValidTimerSettings(s) ==
  /\ s.standardTimer >= MinTimer /\ s.standardTimer <= MaxTimer
  /\ s.pauseTimer >= MinTimer /\ s.pauseTimer <= MaxTimer
  /\ s.pauseTimer > s.standardTimer

\* C12: an update of the timer settings is rejected only for settings with
\* pauseTimer <= standardTimer or a value outside [minTimer, maxTimer]; the
\* rejected update leaves the stored settings, the settings in memory, the
\* three timer refs, the pending timeouts and the checks in flight as they were.
C12_RejectedTimerUpdate ==
  [][(out'.op = "rejected" /\ out.op # "rejected") =>
       /\ ~ValidTimerSettings(Get(out'.arg))
       /\ storage' = storage
       /\ timerSettings' = timerSettings
       /\ intervalRef' = intervalRef
       /\ pauseTimeoutRef' = pauseTimeoutRef
       /\ realtimeIntervalRef' = realtimeIntervalRef
       /\ timeouts' = timeouts
       /\ inflight' = inflight]_vars

\* a rejected update while settings are stored and the intervals are armed
C12_Witness ==
  /\ out.op = "rejected"
  /\ storage.timerSettings # None
  /\ Get(storage.timerSettings) # Get(out.arg)
  /\ intervalRef # None /\ realtimeIntervalRef # None

\* C13: the timer settings in memory, and the stored ones when there are any,
\* have pauseTimer > standardTimer and both values within [minTimer, maxTimer].
C13_TimerSettingsInvariant ==
  /\ ValidTimerSettings(timerSettings)
  /\ storage.timerSettings # None => ValidTimerSettings(Get(storage.timerSettings))

\* updated settings that were loaded again at a startup
C13_Witness ==
  /\ out.op = "reload"
  /\ storage.timerSettings # None
  /\ timerSettings = Get(storage.timerSettings)
  /\ timerSettings # DefaultTimerSettings

\* the last of the pending one-second timeouts
LastTimeout == timeouts[Len(timeouts)]

\* C14: with credentials present, an accepted update that changes the timer
\* settings or the schedule settings, and a change of the client-open status,
\* clears the polling timers and schedules their restart with the new
\* standardTimer, the new schedule and the new client-open value.
C14_ReconfigurationRestarts ==
  [][(/\ out'.op = "config"
      /\ credentials # None
      /\ \/ timerSettings' # timerSettings
         \/ scheduleSettings' # scheduleSettings
         \/ isFinesseOpen' # isFinesseOpen)
     => (/\ intervalRef' = None /\ realtimeIntervalRef' = None
         /\ timeouts' # <<>>
         /\ LastTimeout'.kind = "restart"
         /\ LastTimeout'.period = timerSettings'.standardTimer
         /\ LastTimeout'.env.scheduleSettings = scheduleSettings'
         /\ LastTimeout'.env.isFinesseOpen = isFinesseOpen')]_vars

C16_PollingSuspendedDuringPause ==
  /\ (pauseTimeoutRef # None /\ ~Get(pauseTimeoutRef).fired) =>
        (intervalRef = None /\ realtimeIntervalRef = None)
  /\ out.op = "pauseFire" => (intervalRef # None /\ realtimeIntervalRef # None)

\* the settings a startup finds in the store, with the defaults for absent keys
StoredTimerSettings ==
  IF storage.timerSettings = None THEN DefaultTimerSettings ELSE Get(storage.timerSettings)
StoredScheduleSettings ==
  IF storage.scheduleSettings = None THEN getDefaultScheduleSettings
  ELSE Get(storage.scheduleSettings)

\* C17: a startup loads the stored settings, or the defaults for absent keys;
\* with no credential record, or an expired one, nobody is logged in and no
\* timer is armed; with a record of a locked username the record is removed
\* and no status check is made; with a record that is neither expired nor
\* locked the session has its credentials again and polls: its first check
\* calls connectApi unless monitoring is paused, and the intervals armed once
\* that check is answered run checks that do not return for want of credentials.
C17_ReloadStep ==
  [][out'.op = "reload" =>
          LET record == storage.secureCredentials
              fresh == record # None /\ now - Get(record).timestamp <= SessionTimeout
              user == RecordCredentials(storage).username
              locked == fresh /\ StoreIsAccountLocked(storage, user, now)
          IN /\ timerSettings' = StoredTimerSettings
             /\ scheduleSettings' = StoredScheduleSettings
             /\ notificationConfig' = getNotificationConfig(storage)
             /\ ~fresh => (/\ credentials' = None /\ out'.api = 0
                           /\ storage'.secureCredentials = None
                           /\ intervalRef' = None /\ realtimeIntervalRef' = None
                           /\ pauseTimeoutRef' = None)
             /\ locked => (/\ credentials' = None /\ out'.api = 0
                           /\ storage'.secureCredentials = None
                           /\ isAccountLocked')
             /\ (fresh /\ ~locked) =>
                  (/\ credentials' = Some(RecordCredentials(storage))
                   /\ out'.api = IF out'.phase = "poll" THEN 1 ELSE 0
                   /\ out'.phase # "noop")]_vars
C17_ResumedTimersPoll ==
  []((out.op \in {"pollOk", "pollFail"} /\ out.init) =>
          /\ intervalRef # None /\ realtimeIntervalRef # None
          /\ CheckPhase(Get(intervalRef).env, None) # "noop"
          /\ CheckPhase(Get(realtimeIntervalRef).env, None) # "noop")
C17_StartupResume == C17_ReloadStep /\ C17_ResumedTimersPoll


\* the credentials in the words of C18: a username outside every allowed
\* domain (compared without regard to case), an agentId that is not
\* nn.nnn.nnn, or a password of fewer than 4 characters
OutsideAllowedDomains(username) ==
  \A k \in DOMAIN allowedDomains :
     ~endsWith(toLowerCase(username), toLowerCase(allowedDomains[k]))
Malformed(c) ==
  \/ OutsideAllowedDomains(c.username)
  \/ ~agentIdPattern(c.agentId)
  \/ Len(c.password) < 4
ValidationMessages ==
  {"Email invalido", "Dominio de email nao autorizado",
   "Formato de Agent ID invalido (ex: 99.999.999)",
   "Senha deve ter pelo menos 4 caracteres"}

\* C18: an operation of the client called with malformed credentials returns a
\* validation error and issues no request to either endpoint.
C18_ValidationPrecedesIO ==
  (call # None /\ Malformed(Get(call).credentials)) =>
     /\ requests = <<>> /\ tried = <<>> /\ pending = None
     /\ result # None
     /\ Get(result).kind = "returned"
     /\ ~Get(result).value.success
     /\ Get(result).value.error.message \in ValidationMessages
C18_Witness ==
  /\ call # None /\ Get(call).op = "getReasonCodes"
  /\ Get(call).credentials = [WellFormed EXCEPT !.password = << "a", "b", "c" >>]
  /\ result = Some(Returned(ClientFailure("Senha deve ter pelo menos 4 caracteres", 0)))
  /\ requests = <<>>

Successes == {i \in DOMAIN tried : tried[i].result.success}
FirstSuccess == CHOOSE i \in Successes : \A j \in Successes : i <= j

\* C19: the primary endpoint is the first one tried; the fallback is tried
\* exactly when the primary's try did not succeed and the fallback URL differs
\* from the primary; the operation succeeds exactly when an endpoint it tried
\* succeeded, and returns the first successful result.
C19_Failover ==
  /\ requests # <<>> => requests[1].url = baseUrl
  /\ (result # None /\ Get(result).kind = "returned") =>
       LET r == Get(result).value
       IN /\ Len(tried) <= 2
          /\ tried # <<>> => tried[1].url = baseUrl
          /\ Len(tried) = 2 <=>
               (tried # <<>> /\ ~tried[1].result.success /\ fallbackUrl # baseUrl)
          /\ Len(tried) = 2 => tried[2].url = fallbackUrl
          /\ r.success <=> Successes # {}
          /\ r.success => r = tried[FirstSuccess].result
C19_Witness ==
  /\ result # None /\ Get(result).kind = "returned"
  /\ Len(tried) = 2
  /\ tried[1] = [url |-> PrimaryUrl, result |-> ClientFailure("Erro do servidor", 500)]
  /\ tried[2] = [url |-> SecondaryUrl, result |-> ClientSuccess("documentB")]
  /\ Get(result).value = ClientSuccess("documentB")

RequestsTo(url) == {i \in DOMAIN requests : requests[i].url = url}

\* a request is tried at most once more, and only after an abort of its first
\* try: at most 2 requests go to an endpoint and at most 4 are made in all
C20_RequestBound ==
  /\ \A url \in {baseUrl, fallbackUrl} : Cardinality(RequestsTo(url)) <= 2
  /\ Len(requests) <= 4
  /\ \A i \in DOMAIN requests :
        requests[i].retryCount = 1 =>
           /\ i > 1
           /\ requests[i - 1] = [url |-> requests[i].url, retryCount |-> 0,
                                 outcome |-> "AbortError"]

\* C20: an operation of the client ends with a tagged result: it throws
\* nothing, and while it waits for an endpoint the abort timer is armed; a
\* request is tried at most once more and only after an abort, so that at most
\* 2 requests go to an endpoint and at most 4 are made in all.
C20_BoundedRemoteCalls ==
  /\ result # None => Get(result).kind = "returned"
  /\ pending # None => Get(pending).timer
  /\ C20_RequestBound


\* the operation in progress was let through by validateCredentials and
\* createAuthHeader
PastValidation ==
  /\ call # None
  /\ validateCredentials(Get(call).credentials).valid
  /\ ~createAuthHeaderThrows(Get(call).credentials.username,
                             Get(call).credentials.password)

\* C21: changeAgentState with state NOT_READY and no reasonCodeId returns a
\* failure without issuing a request; with state READY it issues its request
\* with a document that holds the state alone, whether or not a reasonCodeId
\* was supplied.
C21_StateChangeValidation ==
  (PastValidation /\ Get(call).op = "changeAgentState") =>
     /\ (Get(call).state = "NOT_READY" /\ ~Supplied(Get(call).reasonCodeId)) =>
          /\ requests = <<>> /\ tried = <<>> /\ pending = None
          /\ result = Some(Returned(ClientFailure(
                        "Estado invalido ou codigo de motivo obrigatorio", 0)))
     /\ Get(call).state = "READY" =>
          /\ requests # <<>>
          /\ requests[1].url = baseUrl
          /\ Get(call).body = Some([state |-> "READY", reasonCodeId |-> None])
C21_Witness ==
  /\ PastValidation /\ Get(call).op = "changeAgentState"
  /\ Get(call).state = "READY" /\ Get(call).reasonCodeId = Some("2")
  /\ result # None /\ Get(result).value.success


\* the moments at which a window can end
WindowEnds == {k * RateStep : k \in 0..MaxRateSteps}

\* C22: for every (userId, endpoint) and every window of length windowMs (the
\* window that ends at t holds the calls made later than t - windowMs and no
\* later than t), the accepted calls inside it are at most maxRequests; a call
\* is rejected exactly when maxRequests calls of its pair were accepted in the
\* window that ends with it, so the 6th call of a window is rejected and a call
\* made once the window has elapsed is accepted.
C22_RateLimitBound ==
  /\ \A p \in RatePairs, t \in WindowEnds : AcceptedInWindow(p, t) <= MaxRequests
  /\ rateOut.op = "checkLimit" => (rateOut.allowed <=> rateOut.before < MaxRequests)
C22_Witness ==
  /\ rateOut.op = "checkLimit" /\ ~rateOut.allowed
  /\ rateOut.before = 5 /\ rateCalls = 6
  /\ rateNow < WindowMs

\* C23: a rejected checkLimit leaves the recorded windows as they were, and
\* with them the time to reset of every pair; getStats, isNearLimit and
\* getTimeToReset change nothing that a later checkLimit reads.
C23_RateLimitFrame ==
  [][(/\ rateCalls' = rateCalls + 1
      /\ \/ rateOut'.op = "checkLimit" /\ ~rateOut'.allowed
         \/ rateOut'.op \in {"getStats", "isNearLimit", "getTimeToReset"})
       => /\ limiter' = limiter
          /\ rateNow' = rateNow
          /\ \A p \in RatePairs : Stats(p[1], p[2])' = Stats(p[1], p[2])]_vars
C23_Witness ==
  /\ rateOut.op = "checkLimit" /\ ~rateOut.allowed
  /\ rateNow = 2 * RateStep
  /\ Stats(rateOut.pair[1], rateOut.pair[2]).resetIn = 20


\* the enabled entries of the day shown by w
EntriesToday(settings, w) ==
  {i \in 1..Len(settings.workSchedules) :
     settings.workSchedules[i].dayOfWeek = w.day /\ settings.workSchedules[i].enabled}
Minutes(t) == t.h * 60 + t.m
Parsable(t) == t.h \in 0..23 /\ t.m \in 0..59

\* C24: isWithinWorkingHours is true when the settings are absent or
\* notifyOutsideHours is set; otherwise it is false when today has no enabled
\* entry, true when a time of today's entry cannot be parsed, and else true
\* exactly when the current time lies between startTime and endTime, both
\* included; shouldMonitor is the conjunction of the client being open and
\* isWithinWorkingHours.
C24_ScheduleEvaluation ==
  schAnswer # None =>
    LET expected ==
          IF schSettings = None THEN TRUE
          ELSE LET s == Get(schSettings)
                   today == EntriesToday(s, schWall)
               IN IF s.notifyOutsideHours THEN TRUE
                  ELSE IF today = {} THEN FALSE
                  ELSE IF \E i \in today : \/ ~Parsable(s.workSchedules[i].startTime)
                                           \/ ~Parsable(s.workSchedules[i].endTime)
                  THEN TRUE
                  ELSE \E i \in today :
                         /\ Minutes(s.workSchedules[i].startTime) <= Minutes(schWall.time)
                         /\ Minutes(schWall.time) <= Minutes(s.workSchedules[i].endTime)
    IN /\ Get(schAnswer).within = expected
       /\ Get(schAnswer).monitor = (schOpen /\ expected)
\* Monday alone, 08:00 to 18:00: true at 18:00 on Monday with the client open
C24_Witness ==
  /\ schSettings = Some(MondayOnly) /\ schOpen
  /\ schWall = [day |-> 1, time |-> HHmm(18, 0)]
  /\ schAnswer = Some([within |-> TRUE, monitor |-> TRUE])

\* the example of C24: Monday alone, 08:00 to 18:00
C24_Example ==
  (schAnswer # None /\ schSettings = Some(MondayOnly)) =>
     /\ schWall = [day |-> 1, time |-> HHmm(9, 0)] => Get(schAnswer).within
     /\ schWall = [day |-> 1, time |-> HHmm(19, 0)] => ~Get(schAnswer).within
     /\ schWall = [day |-> 2, time |-> HHmm(9, 0)] => ~Get(schAnswer).within


\* the round trip of every text but the empty one, of every object, and the
\* two answers of validateHash
C25_NonEmptyRoundTrip ==
  /\ (cryOut.decrypted # None /\ cryIn.data # "") =>
        Get(cryOut.decrypted) = Gives(cryIn.data)
  /\ cryOut.objDecrypted # None => Get(cryOut.objDecrypted) = Some(cryIn.obj)
  /\ cryOut.valid # None =>
        /\ Get(cryOut.valid).same
        /\ cryIn.other # cryIn.data => ~Get(cryOut.valid).other

\* C25: decrypt gives back every text that encrypt was given, the empty text
\* included; decryptObject gives back every object that encryptObject was
\* given; validateHash accepts the hash of a text for that text and refuses
\* it for any other text.
C25_CryptoRoundTrip ==
  /\ cryOut.decrypted # None => Get(cryOut.decrypted) = Gives(cryIn.data)
  /\ C25_NonEmptyRoundTrip


\* a record that getCredentials accepts at time t: not older than the session
\* timeout, decryptable, and carrying the hash of what it decrypts to
Fresh(record, t) == t - record.timestamp <= SessionTimeout
Intact(record) ==
  /\ record.encryptedData.key = SecretKey
  /\ \E c \in Credentials :
       /\ record.encryptedData.plain = stringify(c)
       /\ record.hash = SHA256(stringify(c) \o SecretKey)

\* C26: getCredentials returns credentials only for a stored record that is
\* not older than the session timeout, decrypts and matches its hash, and then
\* the credentials of that record; for every other stored record it returns
\* absent and leaves no record behind, so that a getCredentials that follows
\* returns absent as well.
C26_SelfHealing ==
  [][stOut'.n # stOut.n =>
       LET record == storage.secureCredentials
           returned == stOut'.returned
       IN /\ returned # None <=>
               (record # None /\ Fresh(Get(record), now) /\ Intact(Get(record)))
          /\ returned # None =>
               /\ stringify(Get(returned)) = Get(record).encryptedData.plain
               /\ storage' = storage
          /\ (record # None /\ returned = None) =>
               storage'.secureCredentials = None
          /\ (stOut.n = stCalls /\ stOut.n > 0 /\ stOut.returned = None) =>
               returned = None]_vars

\* getCredentials has removed a fresh record whose hash did not match, one
\* that did not decrypt, and one that was too old
C26_Witness ==
  /\ stOut.n > 0 /\ stOut.before # None /\ stOut.returned = None
  /\ storage.secureCredentials = None
  /\ Fresh(Get(stOut.before), stOut.at)
  /\ decryptObject(Get(stOut.before).encryptedData) # None
C26_WitnessUndecryptable ==
  /\ stOut.n > 0 /\ stOut.before # None /\ stOut.returned = None
  /\ Fresh(Get(stOut.before), stOut.at)
  /\ decryptObject(Get(stOut.before).encryptedData) = None
C26_WitnessExpired ==
  /\ stOut.n > 0 /\ stOut.before # None /\ stOut.returned = None
  /\ ~Fresh(Get(stOut.before), stOut.at)
  /\ Intact(Get(stOut.before))
C26_WitnessReturned ==
  /\ stOut.n > 0 /\ stOut.returned # None
  /\ stOut.at - Get(stOut.before).timestamp = SessionTimeout


\* the webhook of a configuration is a URL of the allowed host
WebhookValid(config) ==
  /\ config.googleChatWebhook # None
  /\ URL(Get(config.googleChatWebhook)).ok
  /\ URL(Get(config.googleChatWebhook)).hostname = AllowedWebhookDomain
\* updateNotificationConfig was called with config and returned success
Updated(o, config, success) == o = NotificationOut(config, success)
Posts(o) == {i \in DOMAIN o.notifs : o.notifs[i].post # None}

\* every webhook POST goes to the allowed host
C27_PostsTargetAllowedHost ==
  \A i \in Posts(out) : Get(out.notifs[i].post) = AllowedWebhookDomain

\* a configuration whose webhook is given and is not a URL of the allowed host
\* is rejected, and neither the store nor the state changes
C27_RejectsOtherHosts ==
  [][\A config \in NotificationInputs :
       /\ Updated(out', config, TRUE) =>
            (WebhookGiven(config) => WebhookValid(config))
       /\ Updated(out', config, FALSE) =>
            /\ storage' = storage
            /\ notificationConfig' = notificationConfig]_vars

\* a webhook POST is made only while the configuration has the chat channel
\* enabled and a webhook given
C27_PostsOnlyWhenEnabled ==
  Posts(out) # {} =>
    notificationConfig.googleChatNotification /\ WebhookGiven(notificationConfig)

\* C27: saveNotificationConfig rejects every configuration whose webhook is
\* given and is not a URL of the allowed host, and then leaves the store and the state as
\* they were; every webhook POST of sendNotification goes to the allowed host,
\* and one is made only when the chat channel is enabled and a webhook is
\* configured.
C27_WebhookAllowList ==
  [][/\ \A config \in NotificationInputs :
          /\ Updated(out', config, TRUE) =>
               (WebhookGiven(config) => WebhookValid(config))
          /\ Updated(out', config, FALSE) =>
               /\ storage' = storage
               /\ notificationConfig' = notificationConfig
     /\ \A i \in Posts(out') :
          /\ Get(out'.notifs[i].post) = AllowedWebhookDomain
          /\ notificationConfig'.googleChatNotification
          /\ WebhookGiven(notificationConfig')]_vars

\* a webhook POST has been made with the chat channel disabled
C27_StalePost ==
  /\ Posts(out) # {}
  /\ ~notificationConfig.googleChatNotification
C27_Rejected == out.op = "notification rejected"


\* what a tick of an armed interval does: the phase its checkAgentStatus
\* reaches, and whether the closure that armed it finds monitoring due
TickPhase(ref) == CheckPhase(Get(ref).env, None)
TickMonitors(ref) ==
  shouldMonitor(Get(ref).env.isFinesseOpen, Get(ref).env.scheduleSettings, wall)

\* C28: while credentials are present, a tick of the primary interval or of
\* the 60 s interval whose closure finds shouldMonitor true calls connectApi.
C28_PollingLive ==
  \A ref \in {intervalRef, realtimeIntervalRef} :
     (credentials # None /\ ref # None /\ TickMonitors(ref)) =>
        TickPhase(ref) = "poll"

\* both intervals are armed after a login, monitoring is due, and a tick of
\* either returns without calling connectApi
C28_DeadTicks ==
  /\ credentials # None /\ out.op = "loginOk"
  /\ intervalRef # None /\ realtimeIntervalRef # None
  /\ TickMonitors(intervalRef) /\ TickMonitors(realtimeIntervalRef)
  /\ TickPhase(intervalRef) = "noop" /\ TickPhase(realtimeIntervalRef) = "noop"


\* a reconfiguration has stopped the timers and its delayed startStatusCheck
\* has not run yet; the status check of a startup has not been answered yet
RestartPending == \E i \in DOMAIN timeouts : timeouts[i].kind = "restart"
StartupPending == \E i \in DOMAIN inflight : inflight[i].init

\* an observed transition to a state outside the not-ready cases sends
\* nothing, updates the last-observed key and leaves both intervals armed
C29_TransitionKeepsCadences ==
  (/\ out.op = "pollOk" /\ out.entered
   /\ lastStatusRef = Some(<<"READY", "null">>)) =>
     /\ out.notifs = <<>>
     /\ intervalRef # None /\ realtimeIntervalRef # None

\* C29: whenever credentials are present and no pause deadline is pending
\* (and no startup or restart is under way), the primary interval and the 60 s interval
\* are both armed; in particular they are after an observed transition to a
\* state outside the not-ready cases, which sends no notification.
C29_BothCadencesArmed ==
  /\ (/\ credentials # None /\ pauseTimeoutRef = None
      /\ ~RestartPending /\ ~StartupPending) =>
        (intervalRef # None /\ realtimeIntervalRef # None)
  /\ C29_TransitionKeepsCadences

\* a transition to READY has been handled and nothing is pending that would
\* arm the primary interval again
C29_PrimaryLost ==
  /\ out.op = "pollOk" /\ out.entered /\ out.notifs = <<>>
  /\ credentials # None /\ pauseTimeoutRef = None /\ timeouts = <<>>
  /\ intervalRef = None /\ realtimeIntervalRef # None


\* the answer of a status check arrives with a key that differs from the
\* last-observed one while a pause deadline is armed and not yet due
LeavesPause ==
  /\ out'.op = "pollOk" /\ out'.entered
  /\ Len(inflight') < Len(inflight)
  /\ pauseTimeoutRef # None
  /\ ~Get(pauseTimeoutRef).fired
  /\ now < Get(pauseTimeoutRef).deadline

\* C30: a poll that observes a changed key while a pause deadline is armed and
\* not yet due cancels that deadline; if the new status is a pause (a reason
\* code > 0) a fresh deadline is armed, measured from the moment of the new
\* transition, and otherwise none is armed.
C30_LeavingPauseCancels ==
  [][LeavesPause =>
       IF handleBranch(Get(agentStatus')) = "pause"
       THEN /\ pauseTimeoutRef' # None
            /\ ~Get(pauseTimeoutRef').fired
            /\ Get(pauseTimeoutRef').deadline =
                 now + PauseDelay(Get(pauseTimeoutRef').env.timerSettings)
       ELSE pauseTimeoutRef' = None]_vars

\* the same for the answers that arrive within the working hours of the
\* closure that asked
C30_CancelsWithinHours ==
  [][(LeavesPause /\ out'.within) =>
       IF handleBranch(Get(agentStatus')) = "pause"
       THEN /\ pauseTimeoutRef' # None
            /\ ~Get(pauseTimeoutRef').fired
            /\ Get(pauseTimeoutRef').deadline =
                 now + PauseDelay(Get(pauseTimeoutRef').env.timerSettings)
       ELSE pauseTimeoutRef' = None]_vars

\* a TIME_EXCEEDED notification is sent for a pause that a poll has seen left
C30_StaleDeadlineFires ==
  /\ out.op = "pauseFire"
  /\ lastStatusRef # None
  /\ Get(lastStatusRef)[2] \in {"null", "-1"}

\* ---------------------------------------------------------- the timer handles
\* how many handles the browser hands out, how many handlers wait at an await
\* and how many delayed restarts are pending at once
MaxHandles == 6
MaxAwaiting == 2
MaxRestarts == 2

TimerKinds == {"interval", "realtime", "pause"}
TimerState(waiting, held) == [pending |-> waiting, handles |-> held]
TimersNow == TimerState(pendingTimers, handles)

\* handles never repeat: a new one differs from every pending timer's and from
\* every value a ref still holds
HandlesInUse(t) ==
  (UNION {t.pending[k] : k \in TimerKinds}) \cup
  ({t.handles[k] : k \in TimerKinds} \ {0})
FreshHandle(t) ==
  CHOOSE id \in 1..(MaxHandles + 1) :
    /\ id \notin HandlesInUse(t)
    /\ \A other \in 1..(MaxHandles + 1) :
         other \notin HandlesInUse(t) => id <= other
HandlesLeft(t) == Cardinality(HandlesInUse(t)) + 2 <= MaxHandles

\* ref.current = setInterval(...) or setTimeout(...)
Arm(t, k) ==
  TimerState([t.pending EXCEPT ![k] = @ \cup {FreshHandle(t)}],
             [t.handles EXCEPT ![k] = FreshHandle(t)])
\* clearInterval(ref.current) or clearTimeout(ref.current)
Cancel(t, k) ==
  TimerState([t.pending EXCEPT ![k] = @ \ {t.handles[k]}], t.handles)

\* stopStatusCheck: each ref that holds a handle is cancelled and set to null
stopTimers(t) ==
  TimerState([k \in TimerKinds |-> t.pending[k] \ {t.handles[k]}], NoHandles)

\* startRealtimeCheck without the clearInterval of the handle it holds
\* (faulty variant of startRealtimeCheck)
startRealtimeCheckKeepsOld(t) == Arm(t, "realtime")
\* startRealtimeCheck: cancel the interval the ref holds, then arm a new one
startRealtimeCheck(t) ==
  Arm(IF t.handles.realtime # 0 THEN Cancel(t, "realtime") ELSE t, "realtime")

\* startStatusCheck: stop, poll, arm the primary interval, startRealtimeCheck
startTimers(t) == startRealtimeCheck(Arm(stopTimers(t), "interval"))

\* the timers that stopped being pending in a step
Cancelled(t) ==
  Cardinality(UNION {pendingTimers[k] \ t.pending[k] : k \in TimerKinds})

TimersBecome(op, t) ==
  /\ pendingTimers' = t.pending
  /\ handles' = t.handles
  /\ timerStep' = [op |-> op, cancelled |-> Cancelled(t)]

\* login (line 281), initializeApp (line 472): startStatusCheck
TimerStart ==
  /\ HandlesLeft(TimersNow)
  /\ TimersBecome("start", startTimers(TimersNow))
  /\ UNCHANGED << awaiting, restarts >>
  /\ TimerOnly

\* logout (line 310), unmount (line 486): stopStatusCheck
TimerStop ==
  /\ timerStep.op # "stop"
  /\ TimersBecome("stop", stopTimers(TimersNow))
  /\ UNCHANGED << awaiting, restarts >>
  /\ TimerOnly

\* updateTimerSettings (371-372) and the restart effect (494-495):
\* stopStatusCheck now, startStatusCheck one second later
TimerRestart ==
  /\ restarts < MaxRestarts
  /\ TimersBecome("restart", stopTimers(TimersNow))
  /\ restarts' = restarts + 1
  /\ UNCHANGED awaiting
  /\ TimerOnly

\* a delayed startStatusCheck runs
TimerRestartFires ==
  /\ restarts > 0
  /\ HandlesLeft(TimersNow)
  /\ TimersBecome("restarted", startTimers(TimersNow))
  /\ restarts' = restarts - 1
  /\ UNCHANGED awaiting
  /\ TimerOnly

\* handleStatusNotifications on NOT_READY (136-139, 150-153): stopStatusCheck,
\* then the handler waits for sendNotification and focusFinesseTab
TimerHandleNotReady ==
  /\ awaiting < MaxAwaiting
  /\ TimersBecome("notReady", stopTimers(TimersNow))
  /\ awaiting' = awaiting + 1
  /\ UNCHANGED restarts
  /\ TimerOnly

\* ... and goes on to startRealtimeCheck (line 157) when they are done
TimerHandleResumes ==
  /\ awaiting > 0
  /\ HandlesLeft(TimersNow)
  /\ TimersBecome("resumed", startRealtimeCheck(TimersNow))
  /\ awaiting' = awaiting - 1
  /\ UNCHANGED restarts
  /\ TimerOnly

\* handleStatusNotifications on a pause (140-149, 157): stopStatusCheck, arm
\* the pause deadline, startRealtimeCheck, all in one turn
TimerHandlePause ==
  /\ HandlesLeft(TimersNow)
  /\ TimersBecome("pause",
                  startRealtimeCheck(Arm(stopTimers(TimersNow), "pause")))
  /\ UNCHANGED << awaiting, restarts >>
  /\ TimerOnly

\* handleStatusNotifications on any other status (134, 157)
TimerHandleOther ==
  /\ HandlesLeft(TimersNow)
  /\ timerStep.op # "other"
  /\ TimersBecome("other", startRealtimeCheck(stopTimers(TimersNow)))
  /\ UNCHANGED << awaiting, restarts >>
  /\ TimerOnly

\* a pending pause deadline expires: a timeout runs once, the ref keeps its
\* handle
TimerPauseExpires ==
  /\ \E id \in pendingTimers.pause :
       TimersBecome("expired",
                    TimerState([pendingTimers EXCEPT !.pause = @ \ {id}],
                               handles))
  /\ UNCHANGED << awaiting, restarts >>
  /\ TimerOnly

\* a pending interval ticks and stays pending
TimerTick ==
  /\ \E k \in {"interval", "realtime"} :
       /\ pendingTimers[k] # {}
       /\ timerStep.op # k
       /\ TimersBecome(k, TimersNow)
  /\ UNCHANGED << awaiting, restarts >>
  /\ TimerOnly

InitTimers ==
  /\ InitSession
  /\ InitService(SecondaryUrl)
  /\ InitRateLimit /\ InitScheduleIdle /\ InitCryptoIdle /\ InitStoreIdle
  /\ InitDetectorIdle
  /\ InitNextTimeIdle
  /\ InitTimersIdle

NextTimers ==
  \/ TimerStart
  \/ TimerStop
  \/ TimerRestart
  \/ TimerRestartFires
  \/ TimerHandleNotReady
  \/ TimerHandleResumes
  \/ TimerHandlePause
  \/ TimerHandleOther
  \/ TimerPauseExpires
  \/ TimerTick

SpecTimers == InitTimers /\ [][NextTimers]_vars

\* C31: no leaked timers.  Of each kind (primary interval, realtime interval,
\* pause deadline) at most one timer is pending, and a pending timer is the
\* one its ref holds: no ref was overwritten while its timer was pending.
C31_NoLeakedTimers ==
  \A k \in TimerKinds :
    /\ Cardinality(pendingTimers[k]) <= 1
    /\ pendingTimers[k] \subseteq {handles[k]}

\* a handler that waited for its notification resumes although a delayed
\* restart has armed both intervals meanwhile: its startRealtimeCheck cancels
\* the pending realtime interval before arming its own
C31_Witness ==
  /\ timerStep = [op |-> "resumed", cancelled |-> 1]
  /\ pendingTimers.interval # {}
  /\ pendingTimers.realtime # {}

\* a status check whose connectApi failed has just ended (the check that
\* initializeApp awaits is followed by its startStatusCheck and is left out)
PollEnded == Len(inflight') < Len(inflight)
FailedPoll == PollEnded /\ out'.op = "pollFail" /\ ~out'.init
\* the check that ended was created by a render whose schedule is within
\* working hours now
EndedWithinHours ==
  \E i \in 1..Len(inflight) :
    /\ inflight' = SubSeq(inflight, 1, i - 1) \o SubSeq(inflight, i + 1, Len(inflight))
    /\ isWithinWorkingHours(inflight[i].env.scheduleSettings, wall)
NotifTypes(o) == {o.notifs[n].type : n \in 1..Len(o.notifs)}

ChangeReturned == out'.op = "change" /\ used' # used

\* C33: a manual state change does not trust local state.  Without credentials
\* changeAgentState returns false and makes no network call; after a successful
\* remote change it leaves agentStatus and the last-observed key alone and
\* schedules exactly one delayed re-poll; after a failed change it schedules
\* nothing and only sets the error.
C33_ChangeDoesNotTrustLocalState ==
  [][ChangeReturned =>
       /\ UNCHANGED << agentStatus, lastStatusRef, isConnected, credentials,
                       inflight, intervalRef, pauseTimeoutRef,
                       realtimeIntervalRef, storage >>
       /\ out'.notifs = <<>>
       /\ credentials = None =>
            /\ out'.arg = Some(FALSE) /\ out'.api = 0
            /\ UNCHANGED << timeouts, error >>
       /\ (credentials # None /\ out'.arg = Some(TRUE)) =>
            /\ Len(timeouts') = Len(timeouts) + 1
            /\ SubSeq(timeouts', 1, Len(timeouts)) = timeouts
            /\ timeouts'[Len(timeouts')].kind = "repoll"
            /\ timeouts'[Len(timeouts')].env.credentials = credentials
            /\ error' = error
       /\ (credentials # None /\ out'.arg = Some(FALSE)) =>
            /\ timeouts' = timeouts
            /\ error' = "change"]_vars

\* a successful change in a session that knows a status: one re-poll waits
C33_Witness ==
  /\ out.op = "change" /\ out.arg = Some(TRUE)
  /\ agentStatus # None
  /\ lastStatusRef # None
  /\ timeouts # <<>>
  /\ timeouts[Len(timeouts)].kind = "repoll"

\* changeAgentState was called by a logged-out session
C33_WitnessLoggedOut ==
  /\ out.op = "change" /\ out.phase = "noop"
  /\ credentials = None

\* the record a login found was left by a failure at least lockoutDuration ago
StaleRecord(username) ==
  /\ getLoginAttempts(storage, username).count > 0
  /\ now - getLoginAttempts(storage, username).lastAttempt >= LockoutDuration

\* C34: the attempt record of a username is cleared by a successful login and,
\* whatever its count, once lockoutDuration minutes have passed since its last
\* failed attempt: a failed login that comes that late starts a new count at 1,
\* so failures further apart than lockoutDuration never add up to a lockout.
C34_AttemptRecordExpiry ==
  [][/\ out'.op = "loginOk" => CountOf(storage', out') = 0
     /\ (out'.op = "loginFail" /\ StaleRecord(Get(out'.login).username)) =>
          /\ CountOf(storage', out') = 1
          /\ ~StoreIsAccountLocked(storage', Get(out'.login).username, now')]_vars

\* ------------------------------------------------------ the next working time
\* weeks put to getNextWorkingTime: the default one, Monday alone, Monday from
\* 10:00, Monday and Wednesday, the weekend alone, every day, and no day
WeekOf(days) ==
  [workSchedules |->
     [i \in 1..Len(defaultSchedule) |->
        [defaultSchedule[i] EXCEPT !.enabled = (defaultSchedule[i].dayOfWeek \in days)]],
   notifyOutsideHours |-> FALSE]
NextTimeSettings ==
  { getDefaultScheduleSettings, WeekOf({1}), WeekOf({1, 3}), WeekOf({6, 0}),
    WeekOf(0..6), WeekOf({}),
    [WeekOf({1}) EXCEPT !.workSchedules[1].startTime = HHmm(10, 0)] }
NextTimeClocks ==
  WallClocks \cup {[day |-> 5, time |-> HHmm(19, 0)], [day |-> 6, time |-> HHmm(8, 0)]}

\* a Date that getNextWorkingTime returns: the days after today and the
\* minute of that day (parse(startTime, 'HH:mm', nextDate))
DateAfter(days, minute) == [days |-> days, minute |-> minute]

\* the loop of getNextWorkingTime from i on
RECURSIVE ScanFrom(_, _, _)
ScanFrom(settings, w, i) ==
  IF i >= 7 THEN None
  ELSE LET daySchedule == FindToday(settings.workSchedules, (w.day + i) % 7)
       IN IF daySchedule = None THEN ScanFrom(settings, w, i + 1)
          ELSE LET startTime == ParseTime(Get(daySchedule).startTime)
               IN IF i = 0 /\ IsValid(startTime) /\ startTime <= ParseTime(w.time)
                  THEN ScanFrom(settings, w, i + 1)
                  ELSE Some(DateAfter(i, startTime))
getNextWorkingTime(settings, w) == ScanFrom(settings, w, 0)

InitNextTime ==
  /\ InitSession
  /\ InitService(SecondaryUrl)
  /\ InitRateLimit /\ InitScheduleIdle /\ InitCryptoIdle /\ InitStoreIdle
  /\ InitDetectorIdle
  /\ InitTimersIdle
  /\ nextSettings \in NextTimeSettings
  /\ nextNow \in NextTimeClocks
  /\ nextAnswer = None

AskNextWorkingTime ==
  /\ nextAnswer = None
  /\ nextAnswer' = Some([result |-> getNextWorkingTime(nextSettings, nextNow)])
  /\ UNCHANGED << nextSettings, nextNow >>
  /\ NextTimeOnly

NextNextTime == AskNextWorkingTime

SpecNextTime == InitNextTime /\ [][NextNextTime]_vars

\* minutes from the midnight that began today
MinutesAfter(date) == date.days * 1440 + date.minute
\* the minutes, counted the same way, at which the enabled windows of today
\* and of the following six days start
WindowStarts(settings, w) ==
  LET ws == settings.workSchedules
  IN { i * 1440 + ParseTime(ws[k].startTime) :
         <<i, k>> \in { p \in (0..6) \X (1..Len(ws)) :
                          /\ ws[p[2]].enabled
                          /\ ws[p[2]].dayOfWeek = (w.day + p[1]) % 7 } }
NextAsked == nextAnswer # None
NextResult == Get(nextAnswer).result
NextNowMinute == ParseTime(nextNow.time)
FutureStarts == {s \in WindowStarts(nextSettings, nextNow) : s > NextNowMinute}
SomeDayEnabled ==
  \E k \in 1..Len(nextSettings.workSchedules) : nextSettings.workSchedules[k].enabled

\* C35: getNextWorkingTime returns the start of the first enabled window, of
\* today and the following six days, that is strictly in the future; a result
\* is never in the past and no enabled window starts between now and it; and
\* there is a result whenever some day of the week is enabled.
C35_NextWorkingTime ==
  NextAsked =>
    /\ FutureStarts # {} =>
         /\ NextResult # None
         /\ \A s \in FutureStarts : MinutesAfter(Get(NextResult)) <= s
    /\ NextResult # None =>
         /\ MinutesAfter(Get(NextResult)) \in FutureStarts
         /\ ~ \E s \in FutureStarts : s < MinutesAfter(Get(NextResult))
    /\ SomeDayEnabled => NextResult # None

\* the same without its last part: what the scan of seven days does give
C35_FirstFutureStart ==
  NextAsked =>
    /\ FutureStarts # {} =>
         /\ NextResult # None
         /\ \A s \in FutureStarts : MinutesAfter(Get(NextResult)) <= s
    /\ NextResult # None =>
         /\ MinutesAfter(Get(NextResult)) \in FutureStarts
         /\ ~ \E s \in FutureStarts : s < MinutesAfter(Get(NextResult))

\* Monday is the only working day and its window has begun: the scan ends
\* with Sunday and finds nothing, although Monday comes again
C35_NoneAlthoughEnabled ==
  /\ NextAsked
  /\ SomeDayEnabled
  /\ NextResult = None

\* ---------------------------------------------------------- the client detector
\* how many tabs are open at most
MaxTabs == 2

\* finesseUrls: the two configured URLs without '/finesse/api'
PrimaryOrigin == "https://primary"
SecondaryOrigin == "https://secondary"
finesseUrls == << PrimaryOrigin, SecondaryOrigin >>

\* a tab: the part of its address before the path, and its flags
Tab(origin, active, audible, windowId) ==
  [origin |-> origin, active |-> active, audible |-> audible, windowId |-> windowId]
TabOrigins == {PrimaryOrigin, SecondaryOrigin, "https://elsewhere"}
TabLists ==
  UNION { [1..n -> [origin : TabOrigins, active : BOOLEAN, audible : BOOLEAN]]
          : n \in 0..MaxTabs }
OpenTabs(list) ==
  [i \in 1..Len(list) |-> Tab(list[i].origin, list[i].active, list[i].audible, i)]

\* chrome.tabs.query({ url: finesseUrls.map(url => `${url}/*`) })
MatchesPattern(tab) == \E k \in 1..Len(finesseUrls) : tab.origin = finesseUrls[k]
QueryTabs(tabs) == SelectSeq(tabs, MatchesPattern)

\* what the callback of isFinesseOpen resolves with
ResolvedOpen(tabs, lastError) ==
  IF lastError THEN FALSE
  ELSE (\E i \in 1..Len(tabs) : tabs[i].active \/ tabs[i].audible) /\ Len(tabs) > 0

\* FinesseDetectorService.isFinesseOpen()
detectFinesseOpen(extension, tabs, lastError) ==
  IF ~extension THEN TRUE ELSE ResolvedOpen(QueryTabs(tabs), lastError)

DetectorOut(op, answer, lastError, opened, focused) ==
  [op |-> op, result |-> answer, lastError |-> lastError, opened |-> opened,
   focused |-> focused]

\* isFinesseOpen is called; chrome.runtime.lastError may be set in the callback
DetectOpen ==
  /\ \E lastError \in BOOLEAN :
       /\ lastError => detExtension
       /\ detOut' = DetectorOut("isFinesseOpen",
                                detectFinesseOpen(detExtension, detTabs, lastError),
                                lastError, None, None)
  /\ detOut.op # "isFinesseOpen"
  /\ UNCHANGED << detExtension, detTabs >>
  /\ DetectorOnly

\* focusFinesseTab(): window.open outside an extension; in one, a new tab when
\* the query failed or found nothing, else the first tab found is activated and
\* its window focused
FocusTab ==
  /\ detOut.op # "focusFinesseTab"
  /\ \E lastError \in BOOLEAN :
       /\ lastError => detExtension
       /\ LET found == QueryTabs(detTabs)
              first == CHOOSE i \in 1..Len(detTabs) :
                         /\ MatchesPattern(detTabs[i])
                         /\ \A j \in 1..(i - 1) : ~MatchesPattern(detTabs[j])
          IN IF ~detExtension \/ lastError \/ Len(found) = 0
             THEN /\ detOut' = DetectorOut("focusFinesseTab", TRUE, lastError,
                                           Some(finesseUrls[1]), None)
                  /\ detTabs' = detTabs
             ELSE \/ /\ detOut' = DetectorOut("focusFinesseTab", TRUE, FALSE, None,
                                              Some(found[1].windowId))
                     /\ detTabs' = [detTabs EXCEPT ![first].active = TRUE]
                  \* chrome.tabs.update failed: no window is focused
                  \/ /\ detOut' = DetectorOut("focusFinesseTab", FALSE, TRUE, None,
                                              None)
                     /\ detTabs' = detTabs
  /\ UNCHANGED detExtension
  /\ DetectorOnly

InitDetector ==
  /\ InitSession
  /\ InitService(SecondaryUrl)
  /\ InitRateLimit /\ InitScheduleIdle /\ InitCryptoIdle /\ InitStoreIdle
  /\ InitTimersIdle
  /\ InitNextTimeIdle
  /\ detExtension \in BOOLEAN
  /\ detTabs \in {OpenTabs(list) : list \in TabLists}
  /\ detOut = NotDetected

NextDetector ==
  \/ DetectOpen
  \/ FocusTab

SpecDetector == InitDetector /\ [][NextDetector]_vars

SomeTabMatches == \E i \in 1..Len(detTabs) : MatchesPattern(detTabs[i])
FirstMatch ==
  detTabs[CHOOSE i \in 1..Len(detTabs) :
            /\ MatchesPattern(detTabs[i])
            /\ \A j \in 1..(i - 1) : ~MatchesPattern(detTabs[j])]

\* C36: without tab introspection isFinesseOpen returns true and
\* focusFinesseTab opens a new window at the configured URL; with it (and no
\* error of the tabs API) isFinesseOpen returns true exactly when some open
\* tab's address matches a configured prefix, whether that tab is active or
\* audible or not, and focusFinesseTab activates the first matching tab's
\* window, or opens a new one if none matches.
C36_ClientDetection ==
  /\ (detOut.op = "isFinesseOpen" /\ ~detExtension) => detOut.result
  /\ (detOut.op = "focusFinesseTab" /\ ~detExtension) =>
       detOut.opened = Some(PrimaryOrigin)
  /\ (detOut.op = "isFinesseOpen" /\ detExtension /\ ~detOut.lastError) =>
       (detOut.result <=> SomeTabMatches)
  /\ (detOut.op = "focusFinesseTab" /\ detExtension /\ ~detOut.lastError) =>
       IF SomeTabMatches
       THEN /\ detOut.focused = Some(FirstMatch.windowId)
            /\ FirstMatch.active
            /\ detOut.opened = None
       ELSE detOut.opened = Some(PrimaryOrigin) /\ detOut.focused = None

\* the same, with the tabs found by isFinesseOpen also tested for their flags
C36_DetectsActiveOrAudible ==
  /\ (detOut.op = "isFinesseOpen" /\ ~detExtension) => detOut.result
  /\ (detOut.op = "focusFinesseTab" /\ ~detExtension) =>
       detOut.opened = Some(PrimaryOrigin)
  /\ (detOut.op = "isFinesseOpen" /\ detExtension /\ ~detOut.lastError) =>
       (detOut.result <=>
          \E i \in 1..Len(detTabs) :
            MatchesPattern(detTabs[i]) /\ (detTabs[i].active \/ detTabs[i].audible))
  /\ (detOut.op = "focusFinesseTab" /\ detExtension /\ ~detOut.lastError) =>
       IF SomeTabMatches
       THEN /\ detOut.focused = Some(FirstMatch.windowId)
            /\ FirstMatch.active
            /\ detOut.opened = None
       ELSE detOut.opened = Some(PrimaryOrigin) /\ detOut.focused = None

\* a Finesse tab is open in the background, silent, and isFinesseOpen says
\* that the client is closed
C36_BackgroundTabMissed ==
  /\ detOut.op = "isFinesseOpen" /\ detExtension /\ ~detOut.lastError
  /\ SomeTabMatches
  /\ ~detOut.result

\* the pause-deadline timer has just fired
DeadlineFired == out'.op = "pauseFire" /\ pauseTimeoutRef' # pauseTimeoutRef
SentTypes == NotifTypes(out')

\* C37: the pause alert respects suppression.  TIME_EXCEEDED and its focus
\* request go out only while the client is open and the schedule is within
\* working hours; a deadline that expires outside working hours or while the
\* client is closed sends nothing.
C37_PauseAlertRespectsSuppression ==
  [][DeadlineFired =>
       IF isFinesseOpen /\ isWithinWorkingHours(scheduleSettings, wall)
       THEN TRUE
       ELSE "TIME_EXCEEDED" \notin SentTypes /\ out'.focus = 0]_vars

\* TIME_EXCEEDED was sent after the working window had ended
C37_AlertOutsideHours ==
  /\ out.op = "pauseFire"
  /\ "TIME_EXCEEDED" \in NotifTypes(out)
  /\ isFinesseOpen
  /\ ~isWithinWorkingHours(scheduleSettings, wall)

\* ------------------------------------------------ reconfiguration during a pause
\* a working day on which the agent is READY or in pause 2, with the timers
\* that the browser is bound to run: a pending timeout fires, a request is
\* answered, the clock goes on, an expired deadline runs its callback
PauseLogins == {ApiSuccess(Status("READY", None, TRUE))}
PauseResponses ==
  {ApiSuccess(Status("READY", None, TRUE)), ApiSuccess(Status("NOT_READY", Some("2"), TRUE))}
PollAnswered == \E i \in 1..MaxInFlight, resp \in PauseResponses : PollComplete(i, resp)
TimePasses == Advance(1, MaxTime)
\* the settings the user changes to: a longer primary period with the same
\* pause limit, and notifications outside working hours
ReconfigureTimers == {[standardTimer |-> MinTimer + 1, pauseTimer |-> MinTimer]}
ReconfigureSchedules == {NotifyAlwaysSettings}

NextReconfigure ==
  \/ \E c \in SessionCredentials, resp \in PauseLogins : MaySession /\ Login(c, resp)
  \/ TimePasses
  \/ IntervalTick
  \/ RealtimeTick
  \/ TimeoutFire
  \/ PollAnswered
  \/ PauseFire
  \/ \E isOpen \in BOOLEAN : MayChange /\ SetFinesseOpen(isOpen)
  \/ \E settings \in ReconfigureSchedules :
       MayChange /\ UpdateScheduleSettings(settings)
  \/ \E settings \in ReconfigureTimers : MayChange /\ UpdateTimerSettings(settings)

\* the page was loaded at 09:00 on a Monday by a user who is not logged in and
\* had saved the shortest timers
ShortTimers == [standardTimer |-> MinTimer, pauseTimer |-> MinTimer]
InitReconfigure ==
  /\ credentials = None
  /\ agentStatus = None
  /\ isConnected = FALSE
  /\ error = "none"
  /\ isFinesseOpen = TRUE
  /\ isAccountLocked = FALSE
  /\ remainingAttempts = InitialRemainingAttempts
  /\ timerSettings = ShortTimers
  /\ notificationConfig = DefaultNotificationConfig
  /\ scheduleSettings = getDefaultScheduleSettings
  /\ memo = Env(None, TRUE, getDefaultScheduleSettings, ShortTimers,
                DefaultNotificationConfig)
  /\ intervalRef = None
  /\ pauseTimeoutRef = None
  /\ realtimeIntervalRef = None
  /\ lastStatusRef = None
  /\ timeouts = <<>>
  /\ inflight = <<>>
  /\ storage = saveTimerSettings(EmptyStorage, ShortTimers)
  /\ now = 0
  /\ start = [day |-> 1, time |-> HHmm(9, 0)]
  /\ out = Quiet("init")
  /\ runNotifs = 0
  /\ failStreak = [u \in Usernames |-> NoStreak]
  /\ loggedOut = FALSE
  /\ used = 0
  /\ InitServices

SpecReconfigure ==
  /\ InitReconfigure
  /\ [][NextReconfigure]_vars
  /\ WF_vars(TimeoutFire)
  /\ WF_vars(PollAnswered)
  /\ WF_vars(TimePasses)
  /\ WF_vars(PauseFire)

\* a pause deadline is armed for the pause with the given key, and it expires
\* within the time looked at
DeadlineArmedFor(key) ==
  /\ pauseTimeoutRef # None
  /\ ~Get(pauseTimeoutRef).fired
  /\ Get(pauseTimeoutRef).deadline <= MaxTime
  /\ lastStatusRef = Some(key)
PauseKeys == {StatusKey(Get(resp.data)) : resp \in PauseResponses}
AlertSent == out.op = "pauseFire" /\ "TIME_EXCEEDED" \in NotifTypes(out)

C38_DeadlineLost ==
  /\ out.op = "pollOk" /\ out.phase = "same"
  /\ lastStatusRef = Some(StatusKey(Status("NOT_READY", Some("2"), TRUE)))
  /\ pauseTimeoutRef = None
  /\ intervalRef # None
  /\ runNotifs = 0
  /\ isConnected

\* C39: session-state consistency.  Whatever the interleaving of login, logout,
\* poll answers and timer callbacks, a connected session has credentials and a
\* known agent status has credentials: no poll result is applied to a session
\* that has logged out.
C39_SessionStateConsistent ==
  /\ isConnected => credentials # None
  /\ agentStatus # None => credentials # None

\* the answer to a poll sent before logout arrived after it and was applied
C39_ResultAfterLogout ==
  /\ out.op = "pollOk"
  /\ loggedOut
  /\ credentials = None
  /\ isConnected
  /\ agentStatus # None
  /\ storage.agentStatus # None

\* ------------------------------------------- the rate limiter's views, by the ms
\* the limiter on a clock that moves by steps that are no whole seconds, or
\* by exactly the time getTimeToReset has just reported after a rejection
OddStep == 12345
ViewPairs == {<< "ana@totvs.com.br", "default" >>}

RateTickOdd ==
  /\ rateNow + OddStep <= MaxRateSteps * RateStep
  /\ rateNow' = rateNow + OddStep
  /\ rateOut' = [op |-> "tick"]
  /\ UNCHANGED << limiter, accepted, rateCalls >>
  /\ RateOnly

\* the caller waits getTimeToReset(userId, endpoint) seconds after a rejection
RateWait ==
  /\ rateOut.op = "checkLimit"
  /\ ~rateOut.allowed
  /\ rateNow' = rateNow + Stats(rateOut.pair[1], rateOut.pair[2]).resetIn * 1000
  /\ rateOut' = [op |-> "wait", pair |-> rateOut.pair]
  /\ UNCHANGED << limiter, accepted, rateCalls >>
  /\ RateOnly

NextRateViews ==
  \/ \E p \in ViewPairs : CheckLimit(p[1], p[2])
  \/ \E p \in ViewPairs : GetStats(p[1], p[2])
  \/ \E p \in ViewPairs : GetTimeToReset(p[1], p[2])
  \/ RateTickOdd
  \/ RateWait

SpecRateViews == InitRate /\ [][NextRateViews]_vars

\* checkLimit has just returned
LimitChecked == rateOut'.op = "checkLimit" /\ rateCalls' # rateCalls
\* what getStats reports for the pair of that call at the time of the call,
\* before it and after it
StatsBefore == Stats(rateOut'.pair[1], rateOut'.pair[2])
RequestsAfter == MapGet(limiter', RateKey(rateOut'.pair[1], rateOut'.pair[2]))
ResetInAfter ==
  CeilSeconds(IF InsideWindow(RequestsAfter, rateNow') = <<>> THEN 0
              ELSE Max0(WindowMs - (rateNow' - Head(InsideWindow(RequestsAfter, rateNow')))))

\* C40: the views of the rate limiter agree with its decision.  checkLimit
\* returns true exactly when getStats at that moment reports remaining > 0,
\* and current + remaining = max; and after a rejection a checkLimit made
\* getTimeToReset * 1000 ms later, with no call in between, is let through.
C40_ViewsAgreeWithDecision ==
  [][LimitChecked =>
       /\ rateOut'.allowed <=> StatsBefore.remaining > 0
       /\ StatsBefore.current + StatsBefore.remaining = StatsBefore.max
       /\ ~rateOut'.allowed =>
            ~LimitReached(InsideWindow(RequestsAfter,
                                       rateNow' + ResetInAfter * 1000))]_vars

\* the requests recorded for the pair of the last call
LastRequests == MapGet(limiter, RateKey(rateOut.pair[1], rateOut.pair[2]))

\* a rejected caller has waited what getTimeToReset reported: the limit is no
\* longer reached although all MaxRequests requests are still recorded, and
\* the oldest of them is older than the window by less than a second, because
\* getTimeToReset rounds up to whole seconds
C40_Witness ==
  /\ rateOut.op = "wait"
  /\ Len(LastRequests) = MaxRequests
  /\ ~LimitReached(InsideWindow(LastRequests, rateNow))
  /\ rateNow - Head(LastRequests) > WindowMs
  /\ rateNow - Head(LastRequests) < WindowMs + 1000

====
